---- MODULE Spec2Model ----
(***************************************************************************)
(* A model of numjuggler: the card lexer (parser.get_cards), the card      *)
(* constructor, decomposition and emitter (parser.Card, get_values and     *)
(* the _split_* functions), the map-file compiler                          *)
(* (numbering.read_map_file), the rewrite engine (numbering.LikeFunction,  *)
(* Card.apply_renumbering), the kind registries (names._TypeName) and the  *)
(* folding of long lines (Card.card with wrap=True).                       *)
(*                                                                         *)
(* A Python str is a sequence of one-character strings; a Python list is   *)
(* a sequence; a Python dict is a function on its key set.  An exception   *)
(* that leaves a function is the value of the variable err of that run.    *)
(***************************************************************************)
EXTENDS Integers, Sequences, FiniteSets, TLC

VARIABLES
    \* names._TypeName: iteration order of the dictionary behind eID
    eorder,
    \* parser.get_cards: the generator's frame
    file, pos, pc, ncid, cf, card, cmnt, cards, err,
    \* numbering.read_map_file: the compiler's frame
    mfile, ln, mpc, drename, dchange, merr, mlast,
    \* numbering.LikeFunction and the card it works on
    pdict, cdict, pdict0, cdict0, lf, ld, nwarn, vwarn, calls, pulled, values,
    original_name, ctype, etype, dtype, rlast,
    \* parser.Card: one card on its way through get_values, the two passes
    \* and card()
    vcard, vpc, verr, vwarns,
    \* parser.Card.card(wrap=True): the frame of the call
    wr,
    \* names._TypeName: a registry, the order its dictionary is walked in,
    \* and the last call made on it
    lk

lexVars == <<file, pos, pc, ncid, cf, card, cmnt, cards, err>>
mapVars == <<mfile, ln, mpc, drename, dchange, merr, mlast>>
rwVars ==
    <<pdict, cdict, pdict0, cdict0, lf, ld, nwarn, vwarn, calls, pulled, values,
      original_name, ctype, etype, dtype, rlast>>
valVars == <<vcard, vpc, verr, vwarns>>
regVars == <<lk>>
wrapVars == <<wr>>
vars == <<eorder, lexVars, mapVars, rwVars, valVars, regVars, wrapVars>>

----------------------------------------------------------------------------
(* Python builtins on str and list, as the sources use them.               *)

Min(a, b) == IF a <= b THEN a ELSE b

Max(a, b) == IF a >= b THEN a ELSE b

IsSpace(ch) == ch \in {" ", "\n", "\t"}

IsDigit(ch) == ch \in {"0", "1", "2", "3", "4", "5", "6", "7", "8", "9"}

DigitVal(ch) ==
    CASE ch = "0" -> 0 [] ch = "1" -> 1 [] ch = "2" -> 2 [] ch = "3" -> 3
      [] ch = "4" -> 4 [] ch = "5" -> 5 [] ch = "6" -> 6 [] ch = "7" -> 7
      [] ch = "8" -> 8 [] ch = "9" -> 9

UpperChars ==
    <<"A", "B", "C", "D", "E", "F", "G", "H", "I", "J", "K", "L", "M",
      "N", "O", "P", "Q", "R", "S", "T", "U", "V", "W", "X", "Y", "Z">>

LowerChars ==
    <<"a", "b", "c", "d", "e", "f", "g", "h", "i", "j", "k", "l", "m",
      "n", "o", "p", "q", "r", "s", "t", "u", "v", "w", "x", "y", "z">>

\* str.isalpha() of one character
IsAlpha(ch) ==
    \E i \in DOMAIN UpperChars : UpperChars[i] = ch \/ LowerChars[i] = ch

LowerChar(ch) ==
    IF \E i \in DOMAIN UpperChars : UpperChars[i] = ch
    THEN LowerChars[CHOOSE i \in DOMAIN UpperChars : UpperChars[i] = ch]
    ELSE ch

\* str.lower()
Lower(s) == [i \in 1..Len(s) |-> LowerChar(s[i])]

\* str.lstrip()
LStrip(s) ==
    IF \A i \in DOMAIN s : IsSpace(s[i]) THEN <<>>
    ELSE LET b == CHOOSE i \in DOMAIN s :
                      ~IsSpace(s[i]) /\ \A j \in 1..(i - 1) : IsSpace(s[j])
         IN  SubSeq(s, b, Len(s))

\* str.rstrip()
RStrip(s) ==
    IF \A i \in DOMAIN s : IsSpace(s[i]) THEN <<>>
    ELSE LET e == CHOOSE i \in DOMAIN s :
                      ~IsSpace(s[i]) /\ \A j \in (i + 1)..Len(s) : IsSpace(s[j])
         IN  SubSeq(s, 1, e)

\* str.strip()
Strip(s) == LStrip(RStrip(s))

\* ''.join(list)
RECURSIVE Concat(_)
Concat(ss) == IF ss = <<>> THEN <<>> ELSE Head(ss) \o Concat(Tail(ss))

\* sep.join(list)
RECURSIVE Join(_, _)
Join(sep, ss) ==
    IF ss = <<>> THEN <<>>
    ELSE IF Len(ss) = 1 THEN ss[1]
    ELSE ss[1] \o sep \o Join(sep, Tail(ss))

\* s[i-1:].startswith(sub), i counted from 1
StartsWithAt(s, sub, i) ==
    /\ i + Len(sub) - 1 <= Len(s)
    /\ SubSeq(s, i, i + Len(sub) - 1) = sub

\* str.find(sub) + 1: the position of the first occurrence, 0 when there is none
FindFirst(s, sub) ==
    IF \E i \in 1..(Len(s) + 1) : StartsWithAt(s, sub, i)
    THEN CHOOSE i \in 1..(Len(s) + 1) :
            /\ StartsWithAt(s, sub, i)
            /\ \A j \in 1..(i - 1) : ~StartsWithAt(s, sub, j)
    ELSE 0

\* sub in s
Contains(s, sub) == FindFirst(s, sub) # 0

\* str.replace(old, new, 1)
Replace1(s, old, new) ==
    LET i == FindFirst(s, old)
    IN  IF i = 0 THEN s
        ELSE SubSeq(s, 1, i - 1) \o new \o SubSeq(s, i + Len(old), Len(s))

\* str.replace(old, new) for a one-character old
ReplaceChar(s, old, new) == [i \in 1..Len(s) |-> IF s[i] = old THEN new ELSE s[i]]

\* str.split(): the maximal runs of non-whitespace characters
RECURSIVE SplitWs(_, _)
SplitWs(s, acc) ==
    LET t == LStrip(s)
    IN  IF t = <<>> THEN acc
        ELSE IF \A i \in DOMAIN t : ~IsSpace(t[i]) THEN Append(acc, t)
        ELSE LET e == CHOOSE i \in DOMAIN t :
                          IsSpace(t[i]) /\ \A j \in 1..(i - 1) : ~IsSpace(t[j])
             IN  SplitWs(SubSeq(t, e, Len(t)), Append(acc, SubSeq(t, 1, e - 1)))

Split(s) == SplitWs(s, <<>>)

\* str.split(sep) for a one-character sep: always at least one part
RECURSIVE SplitCh(_, _, _)
SplitCh(s, sep, acc) ==
    IF \A i \in DOMAIN s : s[i] # sep THEN Append(acc, s)
    ELSE LET e == CHOOSE i \in DOMAIN s :
                      s[i] = sep /\ \A j \in 1..(i - 1) : s[j] # sep
         IN  SplitCh(SubSeq(s, e + 1, Len(s)), sep, Append(acc, SubSeq(s, 1, e - 1)))

SplitOn(s, sep) == SplitCh(s, sep, <<>>)

\* int(s): an optional sign and one or more digits, else ValueError
RECURSIVE DigitsVal(_, _)
DigitsVal(s, acc) ==
    IF s = <<>> THEN acc ELSE DigitsVal(Tail(s), 10 * acc + DigitVal(s[1]))

IsIntText(s) ==
    LET d == IF s # <<>> /\ s[1] \in {"+", "-"} THEN Tail(s) ELSE s
    IN  d # <<>> /\ \A i \in 1..Len(d) : IsDigit(d[i])

ParseInt(s) ==
    IF ~IsIntText(s) THEN [err |-> "ValueError", val |-> 0]
    ELSE IF s[1] = "-" THEN [err |-> "none", val |-> 0 - DigitsVal(Tail(s), 0)]
    ELSE IF s[1] = "+" THEN [err |-> "none", val |-> DigitsVal(Tail(s), 0)]
    ELSE [err |-> "none", val |-> DigitsVal(s, 0)]

\* str.format(*args) for the fields the sources write: "{}" takes the next
\* argument, "{{" and "}}" are literal braces; a "{}" without an argument is
\* an IndexError, any other brace a ValueError.  Surplus arguments are ignored.
RECURSIVE FormatFrom(_, _, _, _)
FormatFrom(s, args, k, acc) ==
    IF \A i \in DOMAIN s : s[i] \notin {"{", "}"}
    THEN [err |-> "none", out |-> acc \o s]
    ELSE IF s[1] \notin {"{", "}"}
    THEN LET b == CHOOSE i \in DOMAIN s :
                      /\ s[i] \in {"{", "}"}
                      /\ \A j \in 1..(i - 1) : s[j] \notin {"{", "}"}
         IN  FormatFrom(SubSeq(s, b, Len(s)), args, k, acc \o SubSeq(s, 1, b - 1))
    ELSE IF s[1] = "{"
         THEN IF Len(s) >= 2 /\ s[2] = "{"
              THEN FormatFrom(SubSeq(s, 3, Len(s)), args, k, Append(acc, "{"))
              ELSE IF Len(s) >= 2 /\ s[2] = "}"
                   THEN IF k < Len(args)
                        THEN FormatFrom(SubSeq(s, 3, Len(s)), args, k + 1, acc \o args[k + 1])
                        ELSE [err |-> "IndexError", out |-> acc]
                   ELSE [err |-> "ValueError", out |-> acc]
    ELSE IF Len(s) >= 2 /\ s[2] = "}"
         THEN FormatFrom(SubSeq(s, 3, Len(s)), args, k, Append(acc, "}"))
         ELSE [err |-> "ValueError", out |-> acc]

Format(s, args) == FormatFrom(s, args, 0, <<>>)

----------------------------------------------------------------------------
(* names.py: the kind registries.                                          *)

c_comment == -1
c_blankline == -2
c_message == 1
c_title == 2
c_cell == 3
c_surface == 4
c_data == 5

\* the values of _cTypes: the card types cID(ctype) names; any other raises
cIDs == {c_comment, c_blankline, c_message, c_title, c_cell, c_surface, c_data}

e_cell == 1
e_sur == 2
e_mat == 3
e_tr == 4
e_tal == 5
e_u == 6
e_fill == 7
e_den == -1
e_impn == -2
e_impp == -3
e_tmp == -4
e_nlib == -5
e_mt == -6

d_m == 1
d_mt == 2
d_mpn == 3
d_f == 4
d_tr == 5

\* _eTypes without its '_' entry, which _TypeName.__init__ pops
eTypes ==
    <<[name |-> <<"c", "e", "l", "l">>, id |-> e_cell],
      [name |-> <<"s", "u", "r">>, id |-> e_sur],
      [name |-> <<"m", "a", "t">>, id |-> e_mat],
      [name |-> <<"t", "r">>, id |-> e_tr],
      [name |-> <<"t", "a", "l">>, id |-> e_tal],
      [name |-> <<"u">>, id |-> e_u],
      [name |-> <<"f", "i", "l", "l">>, id |-> e_fill],
      [name |-> <<"d", "e", "n">>, id |-> e_den],
      [name |-> <<"i", "m", "p", ":", "n">>, id |-> e_impn],
      [name |-> <<"i", "m", "p", ":", "p">>, id |-> e_impp],
      [name |-> <<"t", "m", "p">>, id |-> e_tmp],
      [name |-> <<"n", "l", "i", "b">>, id |-> e_nlib],
      [name |-> <<"m", "t">>, id |-> e_mt]>>

\* eID.values: the positive ids
eValues == {eTypes[i].id : i \in {j \in DOMAIN eTypes : eTypes[j].id > 0}}

\* The order in which dict.items() walks _eTypes is fixed by the interpreter
\* build (hash function, word size, hash seed), not by the source: the order
\* of declaration and its reverse stand for the builds.
eOrders ==
    {[i \in DOMAIN eTypes |-> i], [i \in DOMAIN eTypes |-> Len(eTypes) + 1 - i]}

\* eID(V, default) for a str V: the id of the first name, in iteration
\* order, that V is a prefix of; dflt when there is none
eID(V, dflt, order) ==
    LET hit(i) == StartsWithAt(eTypes[order[i]].name, V, 1)
    IN  IF \E i \in DOMAIN order : hit(i)
        THEN eTypes[order[CHOOSE i \in DOMAIN order :
                              hit(i) /\ \A j \in 1..(i - 1) : ~hit(j)]].id
        ELSE dflt

\* _cTypes and _dcTypes without their '_' entries
cTypes ==
    <<[name |-> <<"c", "o", "m", "m", "e", "n", "t">>, id |-> c_comment],
      [name |-> <<"b", "l", "a", "n", "k", "l", "i", "n", "e">>, id |-> c_blankline],
      [name |-> <<"m", "e", "s", "s", "a", "g", "e">>, id |-> c_message],
      [name |-> <<"t", "i", "t", "l", "e">>, id |-> c_title],
      [name |-> <<"c", "e", "l", "l">>, id |-> c_cell],
      [name |-> <<"s", "u", "r", "f", "a", "c", "e">>, id |-> c_surface],
      [name |-> <<"d", "a", "t", "a">>, id |-> c_data]>>

dTypes ==
    <<[name |-> <<"m">>, id |-> d_m],
      [name |-> <<"m", "t">>, id |-> d_mt],
      [name |-> <<"m", "p", "n">>, id |-> d_mpn],
      [name |-> <<"f">>, id |-> d_f],
      [name |-> <<"t", "r">>, id |-> d_tr]>>

\* str(n) for an int n
RECURSIVE StrNat(_)
StrNat(n) ==
    LET d == <<"0", "1", "2", "3", "4", "5", "6", "7", "8", "9">>[(n % 10) + 1]
    IN  IF n < 10 THEN <<d>> ELSE Append(StrNat(n \div 10), d)

Str(n) == IF n < 0 THEN <<"-">> \o StrNat(-n) ELSE StrNat(n)

\* _TypeName.__call__(V, default) on the dictionary data walked in the
\* given order.  V is [int |-> BOOLEAN, v |-> the int or the str]; dflt is
\* <<>> for None.  The result is the name, the id, the default or the
\* ValueError raised.
RECURSIVE TypeNameLoop(_, _, _, _, _)
TypeNameLoop(data, V, dflt, order, i) ==
    IF i > Len(order)
    THEN IF dflt = <<>>
         THEN [kind |-> "raise", v |-> "ValueError"]
         ELSE [kind |-> "default", v |-> dflt[1]]
    ELSE LET k == data[order[i]].name
             v == data[order[i]].id
             sV == IF V.int THEN Str(V.v) ELSE V.v
         IN  IF V.int /\ V.v = v
             THEN [kind |-> "name", v |-> k]
             ELSE IF sV = SubSeq(k, 1, Min(Len(sV), Len(k)))
             THEN [kind |-> "id", v |-> v]
             ELSE TypeNameLoop(data, V, dflt, order, i + 1)

TypeName(data, V, dflt, order) == TypeNameLoop(data, V, dflt, order, 1)

----------------------------------------------------------------------------
(* parser.py: line classifiers and regular expressions.                    *)

\* mline[:80] in Card.get_input
FcWidth == 80

\* l.find('&', 0, 81) in get_cards
AmpCols == 81

\* the number of leading whitespace characters of s
LeadWs(s) == Len(s) - Len(LStrip(s))

\* re_fc_card.search(mline): '^\s*[fF][cC]\d'
re_fc_card(mline) ==
    LET t == LStrip(mline)
    IN  /\ Len(t) >= 3
        /\ LowerChar(t[1]) = "f"
        /\ LowerChar(t[2]) = "c"
        /\ IsDigit(t[3])

\* re_end.search(l).start() + 1 for re_end = '\s[$&]|\n'; 0 when search
\* returns None
EndPos(l) ==
    LET hit(i) ==
            \/ l[i] = "\n"
            \/ IsSpace(l[i]) /\ i < Len(l) /\ l[i + 1] \in {"$", "&"}
    IN  IF \E i \in 1..Len(l) : hit(i)
        THEN CHOOSE i \in 1..Len(l) : hit(i) /\ \A j \in 1..(i - 1) : ~hit(j)
        ELSE 0

\* is_commented(l): re_cmt = '(^\s{0,5}[cC](\s+.*|\s*)$)' on a physical line
\* (a line holds at most one newline, its last character)
is_commented(l) ==
    LET k == LeadWs(l)
    IN  /\ k <= 5
        /\ k + 1 <= Len(l)
        /\ l[k + 1] \in {"c", "C"}
        /\ (Len(l) = k + 1 \/ IsSpace(l[k + 2]))

\* is_fc_card(l): l.lstrip().lower()[:2] == 'fc'
is_fc_card(l) ==
    LET t == Lower(LStrip(l))
    IN  SubSeq(t, 1, Min(2, Len(t))) = <<"f", "c">>

\* is_blankline(l)
is_blankline(l) == Strip(l) = <<>>

\* l[0:5] == '     '
FiveSpaces(l) == SubSeq(l, 1, Min(5, Len(l))) = <<" ", " ", " ", " ", " ">>

\* l.find('&', 0, 81) > -1
HasAmp(l) == \E i \in 1..Min(AmpCols, Len(l)) : l[i] = "&"

----------------------------------------------------------------------------
(* parser.py: class Card.                                                  *)

\* fmt_s(s)
fmt_s(s) == <<"{", "}">>

\* Card.get_input, the loop over self.lines (lines 128-137)
RECURSIVE GetInputLines(_, _, _)
GetInputLines(lines, inpt, tmpl) ==
    IF lines = <<>>
    THEN [err |-> "none", input |-> inpt, template |-> Concat(tmpl)]
    ELSE LET l == Head(lines)
         IN  IF is_commented(l)
             THEN GetInputLines(Tail(lines), inpt, Append(tmpl, l))
             ELSE LET d == EndPos(l)
                  IN  IF d = 0
                      THEN [err |-> "AttributeError", input |-> inpt,
                            template |-> Concat(tmpl)]
                      ELSE GetInputLines(Tail(lines),
                                         Append(inpt, SubSeq(l, 1, d - 1)),
                                         Append(tmpl, fmt_s(SubSeq(l, 1, d - 1))
                                                      \o SubSeq(l, d, Len(l))))

\* Card.get_input: template and input from lines
get_input(lines, ct) ==
    LET mline == Concat(lines)
    IN  IF ct \in {c_comment, c_blankline}
        THEN [err |-> "none", input |-> <<>>, template |-> mline]
        ELSE IF re_fc_card(mline)
             THEN LET i == SubSeq(mline, 1, Min(FcWidth, Len(mline)))
                  IN  [err |-> "none", input |-> <<i>>,
                       template |-> Replace1(mline, i, <<"{", "}">>)]
             ELSE GetInputLines(lines, <<>>, <<>>)

\* Card.__init__: cID(ctype) raises ValueError for an unknown card type;
\* hidden and values are empty, etype, dtype and original_name None until
\* get_values
NewCard(lines, ct) ==
    IF ct \notin cIDs
    THEN [err |-> "ValueError", c |-> <<>>]
    ELSE LET g == get_input(lines, ct)
         IN  [err |-> g.err,
              c |-> [lines |-> lines, ctype |-> ct, input |-> g.input,
                     template |-> g.template, hidden |-> <<>>, values |-> <<>>,
                     etype |-> <<>>, dtype |-> <<>>, original_name |-> <<>>]]

\* fmt_d(s): '{:<Nd}' with N = len(s)
fmt_d(s) == <<"{", ":", "<">> \o StrNat(Len(s)) \o <<"d", "}">>

\* the end of the run of digits that starts at s[i]
RECURSIVE DigitsEnd(_, _)
DigitsEnd(s, i) ==
    IF i < Len(s) /\ IsDigit(s[i + 1]) THEN DigitsEnd(s, i + 1) ELSE i

\* re_rpt.findall(s) for re_rpt = '\d+[rRiI]', scanning from s[i]
RECURSIVE FindRpt(_, _, _)
FindRpt(s, i, acc) ==
    IF \A x \in i..Len(s) : ~IsDigit(s[x]) THEN acc
    ELSE LET d == CHOOSE x \in i..Len(s) :
                      IsDigit(s[x]) /\ \A y \in i..(x - 1) : ~IsDigit(s[y])
             j == DigitsEnd(s, d)
         IN  IF j < Len(s) /\ s[j + 1] \in {"r", "R", "i", "I"}
             THEN FindRpt(s, j + 2, Append(acc, SubSeq(s, d, j + 1)))
             ELSE FindRpt(s, j + 1, acc)

\* re_ind.findall(s) for re_ind = '\[.+\]': from a '[' to the last ']' of
\* its line, one character or more between them
RECURSIVE FindInd(_, _, _)
FindInd(s, i, acc) ==
    LET ends(b) == {j \in (b + 2)..Len(s) :
                        /\ s[j] = "]"
                        /\ \A k \in (b + 1)..(j - 1) : s[k] # "\n"}
        hit(b) == s[b] = "[" /\ ends(b) # {}
    IN  IF \A x \in i..Len(s) : ~hit(x) THEN acc
        ELSE LET b == CHOOSE x \in i..Len(s) : hit(x) /\ \A y \in i..(x - 1) : ~hit(y)
                 j == CHOOSE x \in ends(b) : \A y \in ends(b) : y <= x
             IN  FindInd(s, j + 1, Append(acc, SubSeq(s, b, j)))

\* re_int.findall(s) for re_int = '\D{0,1}\d+': a run of digits with the
\* one character before it, when that is not a digit of an earlier match
RECURSIVE FindInt(_, _, _)
FindInt(s, i, acc) ==
    IF \A x \in i..Len(s) : ~IsDigit(s[x]) THEN acc
    ELSE LET d == CHOOSE x \in i..Len(s) :
                      IsDigit(s[x]) /\ \A y \in i..(x - 1) : ~IsDigit(s[y])
             b == IF d > i THEN d - 1 ELSE d
             j == DigitsEnd(s, d)
         IN  FindInt(s, j + 1, Append(acc, SubSeq(s, b, j)))

\* re_f_card.search(inpt) for re_f_card = '^\s*[fF]\d'
re_f_card(inpt) ==
    LET t == LStrip(inpt)
    IN  Len(t) >= 2 /\ LowerChar(t[1]) = "f" /\ IsDigit(t[2])

\* _get_int(s): the digits of s up to the first letter after a digit
RECURSIVE GetIntFrom(_, _)
GetIntFrom(s, r) ==
    IF s = <<>> THEN r
    ELSE IF r # <<>> /\ IsAlpha(s[1]) THEN r
    ELSE IF IsDigit(s[1]) THEN GetIntFrom(Tail(s), Append(r, s[1]))
    ELSE GetIntFrom(Tail(s), r)

get_int(s) == GetIntFrom(s, <<>>)

\* str.ljust(n)
RECURSIVE LJust(_, _)
LJust(s, n) == IF Len(s) >= n THEN s ELSE LJust(Append(s, " "), n)

\* inpt.format(*map(lambda t: t[0], values)) in Card.card for the fields
\* get_values writes: "{}" is str() of the next value, "{:<Nd}" the next
\* value as a decimal left-justified in N columns (a ValueError for a str).
\* A value <<v, t>> is an int when its kind t is an element kind (t > 0),
\* a str when it is a parameter kind.
RECURSIVE FormatValuesFrom(_, _, _, _)
FormatValuesFrom(s, vals, k, acc) ==
    IF \A i \in DOMAIN s : s[i] \notin {"{", "}"}
    THEN [err |-> "none", out |-> acc \o s]
    ELSE IF s[1] \notin {"{", "}"}
    THEN LET b == CHOOSE i \in DOMAIN s :
                     /\ s[i] \in {"{", "}"}
                     /\ \A j \in 1..(i - 1) : s[j] \notin {"{", "}"}
         IN  FormatValuesFrom(SubSeq(s, b, Len(s)), vals, k, acc \o SubSeq(s, 1, b - 1))
    ELSE IF s[1] = "{"
         THEN IF Len(s) >= 2 /\ s[2] = "{"
              THEN FormatValuesFrom(SubSeq(s, 3, Len(s)), vals, k, Append(acc, "{"))
              ELSE IF Len(s) >= 2 /\ s[2] = "}"
              THEN IF k < Len(vals)
                   THEN FormatValuesFrom(SubSeq(s, 3, Len(s)), vals, k + 1,
                            acc \o (IF vals[k + 1][2] > 0 THEN Str(vals[k + 1][1])
                                    ELSE vals[k + 1][1]))
                   ELSE [err |-> "IndexError", out |-> acc]
              ELSE IF Len(s) >= 6 /\ s[2] = ":" /\ s[3] = "<" /\ IsDigit(s[4])
                      /\ DigitsEnd(s, 4) + 2 <= Len(s)
                      /\ s[DigitsEnd(s, 4) + 1] = "d"
                      /\ s[DigitsEnd(s, 4) + 2] = "}"
              THEN LET j == DigitsEnd(s, 4)
                       n == DigitsVal(SubSeq(s, 4, j), 0)
                   IN  IF k >= Len(vals)
                       THEN [err |-> "IndexError", out |-> acc]
                       ELSE IF vals[k + 1][2] <= 0
                       THEN [err |-> "ValueError", out |-> acc]
                       ELSE FormatValuesFrom(SubSeq(s, j + 3, Len(s)), vals, k + 1,
                                acc \o LJust(Str(vals[k + 1][1]), n))
              ELSE [err |-> "ValueError", out |-> acc]
    ELSE IF Len(s) >= 2 /\ s[2] = "}"
         THEN FormatValuesFrom(SubSeq(s, 3, Len(s)), vals, k, Append(acc, "}"))
         ELSE [err |-> "ValueError", out |-> acc]

FormatValues(s, vals) == FormatValuesFrom(s, vals, 0, <<>>)

\* the replace loops of Card.card (lines 247-249) and of the _split_*
\* functions: each part of vl put at the first k left
RECURSIVE PutBack(_, _, _)
PutBack(s, k, vl) ==
    IF vl = <<>> THEN s
    ELSE LET r == Replace1(s, k, Head(vl))
         IN  IF r = <<>> THEN r ELSE PutBack(r, k, Tail(vl))

\* the replace loops of _protect_nums: each found part replaced, once, by
\* the sentinel k
RECURSIVE HideAll(_, _, _)
HideAll(s, found, k) ==
    IF found = <<>> THEN s
    ELSE LET r == Replace1(s, Head(found), k)
         IN  IF r = <<>> THEN r ELSE HideAll(r, Tail(found), k)

\* Card._protect_nums: input and hidden.  hidden is the dict as the list of
\* its items [k, vl] in the order the keys were set; no hidden part of the
\* cards below holds a sentinel, so the order Card.card walks it in does
\* not show
protect_nums(c) ==
    LET inpt == Join(<<"\n">>, c.input)
        d1 == IF c.ctype = c_cell /\ ~Contains(inpt, <<"l", "i", "k", "e">>)
              THEN <<[k |-> <<"~">>, vl |-> <<>>]>> ELSE <<>>
        rpt == FindRpt(inpt, 1, <<>>)
        in2 == HideAll(inpt, rpt, <<"!">>)
        d2 == IF rpt # <<>> THEN Append(d1, [k |-> <<"!">>, vl |-> rpt]) ELSE d1
        tally == c.ctype = c_data /\ re_f_card(in2)
        ind == IF tally THEN FindInd(in2, 1, <<>>) ELSE <<>>
        in3 == HideAll(in2, ind, <<"|">>)
        d3 == IF ind # <<>> THEN Append(d2, [k |-> <<"|">>, vl |-> ind]) ELSE d2
    IN  [input |-> SplitOn(in3, "\n"), hidden |-> d3]

\* The state of a _split_* function: the exception that left it, inpt, vals,
\* fmts, dtype (<<>> while the local is unbound) and the warnings printed
SplitState(inpt) ==
    [err |-> "none", inpt |-> inpt, vals |-> <<>>, fmts |-> <<>>, dtype |-> <<>>,
     warns |-> 0]

\* inpt = inpt.replace(s, tp, 1); vals.append((v, t)); fmts.append(f)
TakeValue(st, s, v, t, f) ==
    [st EXCEPT !.inpt = Replace1(st.inpt, s, <<"_">>),
               !.vals = Append(st.vals, <<v, t>>),
               !.fmts = Append(st.fmts, f)]

\* the same for an integer value: int(s) raises ValueError after the replace
TakeInt(st, s, t) ==
    LET p == ParseInt(s)
    IN  IF p.err # "none"
        THEN [st EXCEPT !.err = p.err, !.inpt = Replace1(st.inpt, s, <<"_">>)]
        ELSE TakeValue(st, s, p.val, t, fmt_d(s))

Raise(st, e) == [st EXCEPT !.err = e]

\* eID(name) without a default: 0 stands for the ValueError it raises
eIDorRaise(name, order) == eID(name, 0, order)

\* _split_cell, lines 400-409: the integers of the geometry block
RECURSIVE GeomLoop(_, _, _)
GeomLoop(st, found, order) ==
    IF found = <<>> \/ st.err # "none" THEN st
    ELSE LET s0 == Head(found)
             t == IF s0[1] = "#" THEN <<"c", "e", "l", "l">> ELSE <<"s", "u", "r">>
             s == IF IsDigit(s0[1]) THEN s0 ELSE Tail(s0)
             id == eIDorRaise(t, order)
             p == ParseInt(s)
         IN  IF p.err # "none"
             THEN Raise([st EXCEPT !.inpt = Replace1(st.inpt, s, <<"_">>)], p.err)
             ELSE IF id = 0
             THEN Raise([st EXCEPT !.inpt = Replace1(st.inpt, s, <<"_">>)], "ValueError")
             ELSE GeomLoop(TakeValue(st, s, p.val, id, fmt_d(s)), Tail(found), order)

\* _split_cell, lines 414-447: the name and value pairs of the parameter
\* block; haslat is 'lat' in ''.join(parm).lower()
RECURSIVE ParmLoop(_, _, _, _)
ParmLoop(st, t, haslat, order) ==
    IF t = <<>> \/ st.err # "none" THEN st
    ELSE IF Len(t) < 2 THEN Raise(st, "IndexError")
    ELSE LET s == t[1]
             vs == t[2]
             isfill == Contains(Lower(s), <<"f", "i", "l", "l">>)
             vt == IF isfill THEN <<"f", "i", "l", "l">> ELSE s
             st1 == IF isfill /\ haslat THEN [st EXCEPT !.warns = @ + 1] ELSE st
             isint == vt \in {<<"f", "i", "l", "l">>, <<"u">>}
             p == ParseInt(vs)
             id == eIDorRaise(vt, order)
             st2 == [st1 EXCEPT !.inpt = Replace1(st1.inpt, vs, <<"_">>)]
         IN  IF isint /\ p.err # "none" THEN Raise(st1, p.err)
             ELSE IF id = 0 THEN Raise(st2, "ValueError")
             ELSE ParmLoop(TakeValue(st1, vs, IF isint THEN p.val ELSE vs, id,
                                     IF isint THEN fmt_d(vs) ELSE fmt_s(vs)),
                           SubSeq(t, 3, Len(t)), haslat, order)

\* the number of leading tokens that do not start with a letter (lines
\* 392-398: they are geom, the rest is parm)
RECURSIVE GeomLen(_)
GeomLen(t) ==
    IF t = <<>> \/ IsAlpha(Head(t)[1]) THEN 0 ELSE 1 + GeomLen(Tail(t))

\* _split_cell(input_).  The 'like' branch evaluates self.pos in a module
\* level function: a NameError
split_cell(input, order) ==
    LET inpt == Join(<<"\n">>, input)
        t == Split(inpt)
        st0 == SplitState(inpt)
    IN  IF Contains(Lower(inpt), <<"l", "i", "k", "e", " ">>)
        THEN Raise(st0, "NameError")
        ELSE IF Len(t) < 1 THEN Raise(st0, "IndexError")
        ELSE LET st1 == TakeInt(st0, t[1], e_cell)
             IN  IF st1.err # "none" THEN st1
                 ELSE IF Len(t) < 2 THEN Raise(st1, "IndexError")
                 ELSE LET st2 == TakeInt(st1, t[2], e_mat)
                          dens == st2.err = "none" /\ st2.vals[2][1] # 0
                      IN  IF st2.err # "none" THEN st2
                          ELSE IF dens /\ Len(t) < 3 THEN Raise(st2, "IndexError")
                          ELSE LET st3 == IF dens
                                          THEN TakeValue(st2, t[3], t[3], e_den,
                                                         fmt_s(t[3]))
                                          ELSE st2
                                   rest == SubSeq(t, IF dens THEN 4 ELSE 3, Len(t))
                                   g == GeomLen(rest)
                                   geom == SubSeq(rest, 1, g)
                                   parm == SubSeq(rest, g + 1, Len(rest))
                                   st4 == GeomLoop(st3,
                                                   FindInt(Join(<<" ">>, geom), 1, <<>>),
                                                   order)
                                   pt == Split(ReplaceChar(Join(<<" ">>, parm), "=", " "))
                                   st5 == ParmLoop(st4, pt,
                                                   Contains(Lower(Concat(parm)),
                                                            <<"l", "a", "t">>),
                                                   order)
                               IN  IF st5.err # "none" THEN st5
                                   ELSE [st5 EXCEPT !.inpt = PutBack(st5.inpt, <<"_">>,
                                                                     st5.fmts)]

\* _split_surface(input_)
split_surface(input) ==
    LET inpt == Join(<<"\n">>, input)
        t == Split(inpt)
        st0 == SplitState(inpt)
    IN  IF Len(t) < 1 THEN Raise(st0, "IndexError")
        ELSE LET js == IF IsDigit(t[1][1]) THEN t[1] ELSE Tail(t[1])
                 st1 == TakeInt(st0, js, e_sur)
             IN  IF st1.err # "none" THEN st1
                 ELSE IF Len(t) < 2 THEN Raise(st1, "IndexError")
                 ELSE LET ns == t[2]
                          st2 == IF IsDigit(ns[1]) THEN TakeInt(st1, ns, e_tr)
                                 ELSE IF ns[1] = "-" THEN TakeInt(st1, Tail(ns), e_sur)
                                 ELSE IF IsAlpha(ns[1]) THEN st1
                                 ELSE Raise(st1, "ValueError")
                      IN  IF st2.err # "none" THEN st2
                          ELSE [st2 EXCEPT !.inpt = PutBack(st2.inpt, <<"_">>, st2.fmts)]

\* str.rfind(sub) + 1
FindLast(s, sub) ==
    IF \E i \in 1..(Len(s) + 1) : StartsWithAt(s, sub, i)
    THEN CHOOSE i \in 1..(Len(s) + 1) :
            /\ StartsWithAt(s, sub, i)
            /\ \A j \in (i + 1)..(Len(s) + 1) : ~StartsWithAt(s, sub, j)
    ELSE 0

\* _split_data, lines 558-566: whether the integer ss is a universe, by the
\* text between the last placeholder and ss with its spaces removed
IsUniverse(inpt, ss) ==
    LET i1 == FindLast(inpt, <<"_">>)
        i2 == FindFirst(inpt, ss)
        part == SelectSeq(SubSeq(inpt, i1, i2 - 1), LAMBDA ch : ch # " ")
    IN  Lower(SubSeq(part, Max(1, Len(part) - 1), Len(part))) = <<"u", "=">>

\* _split_data, lines 556-569: the integers of a tally card
RECURSIVE TallyLoop(_, _, _, _)
TallyLoop(st, found, typ, hasu) ==
    IF found = <<>> \/ st.err # "none" THEN st
    ELSE LET ss == Tail(Head(found))
             tpe == IF hasu /\ IsUniverse(st.inpt, ss) THEN e_u ELSE typ
         IN  TallyLoop(TakeInt(st, ss, tpe), Tail(found), typ, hasu)

\* _split_data(input_).  dtype is a local that only some branches bind, and
\* the return statement reads it: an UnboundLocalError
split_data(input) ==
    LET inpt == Join(<<"\n">>, input)
        t == Split(inpt)
        st0 == SplitState(inpt)
        t0 == t[1]
        low == Lower(t0)
        done(st) == IF st.err # "none" THEN st
                    ELSE IF st.dtype = <<>>
                    THEN Raise([st EXCEPT !.inpt = PutBack(st.inpt, <<"_">>, st.fmts)],
                               "UnboundLocalError")
                    ELSE [st EXCEPT !.inpt = PutBack(st.inpt, <<"_">>, st.fmts)]
    IN  IF Len(t) < 1 THEN Raise(st0, "IndexError")
        ELSE IF Contains(SubSeq(low, 1, Min(3, Len(low))), <<"t", "r">>)
        THEN done(TakeInt([st0 EXCEPT !.dtype = <<d_tr>>], get_int(t0), e_tr))
        ELSE IF low[1] = "m" /\ ~Contains(low, <<"m", "o", "d", "e">>)
        THEN LET st1 == TakeInt(st0, get_int(t0), e_mat)
             IN  IF st1.err # "none" THEN st1
                 ELSE IF Len(t0) < 2 THEN Raise(st1, "IndexError")
                 ELSE done([st1 EXCEPT !.dtype =
                               IF IsDigit(t0[2]) THEN <<d_m>>
                               ELSE IF low[2] = "t" THEN <<d_mt>>
                               ELSE IF low[2] = "p" THEN <<d_mpn>>
                               ELSE <<>>])
        ELSE IF low[1] = "f" /\ Len(t0) < 2 THEN Raise(st0, "IndexError")
        ELSE IF low[1] = "f" /\ IsDigit(t0[2])
        THEN LET ns == get_int(t0)
                 st1 == TakeInt([st0 EXCEPT !.dtype = <<d_f>>], ns, e_tal)
                 nv == DigitVal(ns[Len(ns)])
                 typ == IF nv \in {1, 2} THEN e_sur
                        ELSE IF nv \in {4, 6, 7, 8} THEN e_cell
                        ELSE 0
                 hasu == /\ Contains(Lower(st1.inpt), <<"u">>)
                         /\ Contains(Lower(st1.inpt), <<"=">>)
             IN  IF st1.err # "none" \/ typ = 0 THEN done(st1)
                 ELSE done(TallyLoop(st1, FindInt(st1.inpt, 1, <<>>), typ, hasu))
        ELSE done([st0 EXCEPT !.dtype = <<0>>])

\* Card._get_etype, lines 205-216
get_etype(ct, dt, et) ==
    IF ct = c_cell THEN <<e_cell>>
    ELSE IF ct = c_surface THEN <<e_sur>>
    ELSE IF ct = c_data /\ dt = <<d_m>> THEN <<e_mat>>
    ELSE IF ct = c_data /\ dt = <<d_f>> THEN <<e_tal>>
    ELSE IF ct = c_data /\ dt = <<d_tr>> THEN <<e_tr>>
    ELSE et

\* Card.get_values, lines 194-197, on the result st of the _split_*
\* function: the card it leaves, the exception that left it and the
\* warnings printed
StoreValues(c, st) ==
    IF st.err # "none"
    THEN [err |-> st.err, warns |-> st.warns, c |-> c]
    ELSE [err |-> "none", warns |-> st.warns,
          c |-> [c EXCEPT !.input = IF c.ctype \in {c_cell, c_surface, c_data}
                                    THEN SplitOn(st.inpt, "\n") ELSE @,
                          !.values = st.vals,
                          !.original_name = IF c.ctype \in {c_cell, c_surface}
                                            THEN <<st.vals[1][1]>> ELSE @,
                          !.dtype = IF c.ctype = c_data THEN st.dtype ELSE @,
                          !.etype = get_etype(c.ctype,
                                              IF c.ctype = c_data THEN st.dtype
                                              ELSE c.dtype, @)]]

\* Card.get_values, lines 184-193, after _protect_nums
SplitValues(c, order) ==
    StoreValues(c, IF c.ctype = c_cell THEN split_cell(c.input, order)
                   ELSE IF c.ctype = c_surface THEN split_surface(c.input)
                   ELSE IF c.ctype = c_data THEN split_data(c.input)
                   ELSE SplitState(<<>>))

\* Card.get_values.  _get_params only sets self.params, from lookups of
\* full registry names, and is left out.
get_values(c, order) ==
    LET p == protect_nums(c)
    IN  SplitValues([c EXCEPT !.input = p.input, !.hidden = p.hidden], order)

\* Card.card, lines 246-249: the hidden parts put back
RECURSIVE Unhide(_, _)
Unhide(s, hidden) ==
    IF hidden = <<>> THEN s
    ELSE Unhide(PutBack(s, Head(hidden).k, Head(hidden).vl), Tail(hidden))

\* Card.card(wrap=False)
card_nowrap(c) ==
    IF c.input = <<>>
    THEN [err |-> "none", out |-> c.template]
    ELSE LET f1 == FormatValues(Join(<<"\n">>, c.input), c.values)
         IN  IF f1.err # "none"
             THEN f1
             ELSE Format(c.template, SplitOn(Unhide(f1.out, c.hidden), "\n"))

\* the widths of Card.card(wrap=True): a segment longer than WrapWidth is
\* folded, at a break point of index below WrapEnd and above WrapMin
WrapWidth == 79
WrapEnd == 75
WrapMin == 6

\* ' '*5, the indent of a continuation line
Indent == <<" ", " ", " ", " ", " ">>

\* s.rfind(dc, 0, hi): the index, counted from 0, of the last dc in s[0:hi];
\* -1 when there is none
RFind(s, dc, hi) ==
    LET hits == {k \in 0..(Min(hi, Len(s)) - 1) : s[k + 1] = dc}
    IN  IF hits = {} THEN -1 ELSE CHOOSE k \in hits : \A j \in hits : j <= k

\* re_fmt.split(s) for re_fmt = '{.*?}': the parts between the placeholders,
\* a placeholder running from a '{' to the first '}' after it on its line
RECURSIVE ReFmtSplit(_, _)
ReFmtSplit(s, acc) ==
    LET close(b) == {e \in (b + 1)..Len(s) : s[e] \in {"}", "\n"}}
        first(b) == CHOOSE e \in close(b) : \A x \in close(b) : e <= x
        hit(b) == s[b] = "{" /\ close(b) # {} /\ s[first(b)] = "}"
    IN  IF \A b \in DOMAIN s : ~hit(b) THEN Append(acc, s)
        ELSE LET b == CHOOSE x \in DOMAIN s : hit(x) /\ \A y \in 1..(x - 1) : ~hit(y)
             IN  ReFmtSplit(SubSeq(s, first(b) + 1, Len(s)),
                            Append(acc, SubSeq(s, 1, b - 1)))

\* variant of the search for a break point that takes the last of the
\* spaces and colons alike
WrapBreak_lastOfBoth(i) ==
    CHOOSE k \in {IF Max(RFind(r, " ", WrapEnd), RFind(r, ":", WrapEnd)) > WrapMin
                  THEN Max(RFind(r, " ", WrapEnd), RFind(r, ":", WrapEnd))
                  ELSE -1 : r \in {RStrip(i)}} : TRUE

\* Card.card, lines 269-282, the loop 'for dc in " :"': the index k the
\* segment i is cut at, the last space when that lies above WrapMin, else the
\* last colon when that does; -1 when the loop runs into its else clause.
\* r is i.rstrip(), evaluated once
WrapBreak(i) ==
    CHOOSE k \in {IF RFind(r, " ", WrapEnd) > WrapMin THEN RFind(r, " ", WrapEnd)
                  ELSE IF RFind(r, ":", WrapEnd) > WrapMin THEN RFind(r, ":", WrapEnd)
                  ELSE -1 : r \in {RStrip(i)}} : TRUE

\* lines 265-266: a segment that starts with five spaces gets exactly five
Reindent(i) ==
    IF SubSeq(i, 1, Min(5, Len(i))) = Indent THEN Indent \o LStrip(i) ELSE i

\* Card.card(wrap=True), lines 239-256: the frame before the loop over the
\* segments; the loop variables i, t, il and tl are not bound yet
WrapFrame(c) ==
    LET f0 == [pc |-> "done", err |-> "none", out |-> c.template,
               inpt |-> <<>>, tparts |-> <<>>, n |-> 0, i |-> <<>>, t |-> <<>>,
               il |-> <<>>, tl |-> <<>>, newt |-> <<>>, newi |-> <<>>,
               warns |-> 0]
    IN  IF c.input = <<>> THEN f0
        ELSE LET f1 == FormatValues(Join(<<"\n">>, c.input), c.values)
             IN  IF f1.err # "none"
                 THEN [f0 EXCEPT !.err = f1.err, !.out = <<>>]
                 ELSE [f0 EXCEPT !.pc = "for", !.out = <<>>,
                                 !.inpt = SplitOn(Unhide(f1.out, c.hidden), "\n"),
                                 !.tparts = Tail(ReFmtSplit(c.template, <<>>)),
                                 !.newt = <<<<>>>>]

\* lines 287-288: the parts of one segment added to the new template and
\* the new input
SegmentEnd(w) ==
    [w EXCEPT !.pc = "for", !.newt = w.newt \o w.tl,
              !.newi = (w.newi \o w.il) \o <<w.i>>]

----------------------------------------------------------------------------
(* parser.py: get_cards.                                                   *)

\* _yield for each planned (lines, ctype) in turn, up to the first
\* constructor that raises
RECURSIVE YieldAll(_, _)
YieldAll(planned, acc) ==
    IF planned = <<>>
    THEN [err |-> "none", cards |-> acc]
    ELSE LET r == NewCard(Head(planned).lines, Head(planned).ctype)
         IN  IF r.err # "none"
             THEN [err |-> r.err, cards |-> acc]
             ELSE YieldAll(Tail(planned), Append(acc, r.c))

Plan(lines, ct) == [lines |-> lines, ctype |-> ct]

\* the card and the comment block that a new card, a blank line or the end
\* of the file closes (lines 704-708, 726-729, 734-737)
Pending(crd, cmt, nc) ==
    (IF crd # <<>> THEN <<Plan(crd, nc)>> ELSE <<>>)
    \o (IF cmt # <<>> THEN <<Plan(cmt, c_comment)>> ELSE <<>>)

\* get_cards, lines 654-677: the first block.  stop: f.next() raised
\* StopIteration, which ends the generator without an error
FirstBlockResult(f) ==
    IF f = <<>>
    THEN [planned |-> <<>>, pos |-> 0, ncid |-> 0, stop |-> TRUE, err |-> "none"]
    ELSE LET toks == Split(Lower(f[1]))
         IN  IF toks = <<>>
             THEN [planned |-> <<>>, pos |-> 1, ncid |-> 0, stop |-> FALSE,
                   err |-> "IndexError"]
             ELSE IF toks[1] = <<"m", "e", "s", "s", "a", "g", "e", ":">>
             THEN LET B == {j \in 2..Len(f) : is_blankline(f[j])}
                  IN  IF B = {}
                      THEN [planned |-> <<>>, pos |-> Len(f), ncid |-> 0,
                            stop |-> TRUE, err |-> "none"]
                      ELSE LET j == CHOOSE x \in B : \A y \in B : x <= y
                               msg == <<Plan(SubSeq(f, 1, j), c_message),
                                        Plan(<<f[j]>>, c_blankline)>>
                           IN  IF j = Len(f)
                               THEN [planned |-> msg, pos |-> j, ncid |-> 0,
                                     stop |-> TRUE, err |-> "none"]
                               ELSE [planned |-> Append(msg, Plan(<<f[j + 1]>>, c_title)),
                                     pos |-> j + 1, ncid |-> c_title + 1,
                                     stop |-> FALSE, err |-> "none"]
             ELSE IF toks[1] = <<"c", "o", "n", "t", "i", "n", "u", "e">>
             THEN [planned |-> <<>>, pos |-> 1, ncid |-> c_data, stop |-> FALSE,
                   err |-> "none"]
             ELSE [planned |-> <<Plan(<<f[1]>>, c_title)>>, pos |-> 1,
                   ncid |-> c_title + 1, stop |-> FALSE, err |-> "none"]

FirstBlock ==
    /\ pc = "first"
    /\ LET r == FirstBlockResult(file)
           y == YieldAll(r.planned, cards)
       IN  /\ cards' = y.cards
           /\ err' = IF y.err # "none" THEN y.err ELSE r.err
           /\ pc' = IF y.err # "none" \/ r.err # "none" \/ r.stop
                    THEN "done" ELSE "loop"
           /\ pos' = r.pos
           /\ ncid' = r.ncid
    /\ cf' = FALSE
    /\ card' = <<>>
    /\ cmnt' = <<>>
    /\ UNCHANGED <<file, eorder, mapVars, rwVars,
                   valVars, regVars, wrapVars>>

\* lines 702-712: a blank line delimiter
BlankLine ==
    /\ pc = "loop"
    /\ pos < Len(file)
    /\ is_blankline(file[pos + 1])
    /\ LET l == file[pos + 1]
           y == YieldAll(Append(Pending(card, cmnt, ncid), Plan(<<l>>, c_blankline)),
                         cards)
       IN  /\ cards' = y.cards
           /\ err' = y.err
           /\ pc' = IF y.err # "none" THEN "done" ELSE "loop"
    /\ pos' = pos + 1
    /\ cmnt' = <<>>
    /\ card' = <<>>
    /\ ncid' = ncid + 1
    /\ UNCHANGED <<file, cf, eorder, mapVars, rwVars,
                   valVars, regVars, wrapVars>>

\* lines 713-719: a continuation line
Continuation ==
    /\ pc = "loop"
    /\ pos < Len(file)
    /\ ~is_blankline(file[pos + 1])
    /\ FiveSpaces(file[pos + 1]) \/ cf
    /\ card' = (card \o cmnt) \o <<file[pos + 1]>>
    /\ cmnt' = <<>>
    /\ cf' = HasAmp(file[pos + 1])
    /\ pos' = pos + 1
    /\ UNCHANGED <<file, pc, ncid, cards, err, eorder, mapVars, rwVars,
                   valVars, regVars, wrapVars>>

\* lines 720-723: a comment line, kept until the next line decides
CommentLine ==
    /\ pc = "loop"
    /\ pos < Len(file)
    /\ ~is_blankline(file[pos + 1])
    /\ ~(FiveSpaces(file[pos + 1]) \/ cf)
    /\ is_commented(file[pos + 1])
    /\ cmnt' = Append(cmnt, file[pos + 1])
    /\ pos' = pos + 1
    /\ UNCHANGED <<file, pc, ncid, cf, card, cards, err, eorder, mapVars, rwVars,
                   valVars, regVars, wrapVars>>

\* lines 724-733: the first line of a card
FirstLine ==
    /\ pc = "loop"
    /\ pos < Len(file)
    /\ ~is_blankline(file[pos + 1])
    /\ ~(FiveSpaces(file[pos + 1]) \/ cf)
    /\ ~is_commented(file[pos + 1])
    /\ LET y == YieldAll(Pending(card, cmnt, ncid), cards)
       IN  /\ cards' = y.cards
           /\ err' = y.err
           /\ pc' = IF y.err # "none" THEN "done" ELSE "loop"
    /\ cmnt' = <<>>
    /\ card' = <<file[pos + 1]>>
    /\ cf' = (~is_fc_card(file[pos + 1]) /\ HasAmp(file[pos + 1]))
    /\ pos' = pos + 1
    /\ UNCHANGED <<file, ncid, eorder, mapVars, rwVars,
                   valVars, regVars, wrapVars>>

\* lines 734-737: the end of the file
EndOfFile ==
    /\ pc = "loop"
    /\ pos = Len(file)
    /\ LET y == YieldAll(Pending(card, cmnt, ncid), cards)
       IN  /\ cards' = y.cards
           /\ err' = y.err
    /\ pc' = "done"
    /\ UNCHANGED <<file, pos, ncid, cf, card, cmnt, eorder, mapVars, rwVars,
                   valVars, regVars, wrapVars>>

----------------------------------------------------------------------------
(* numbering.py: LikeFunction.rename.                                      *)

\* A range read from a map file: None, one int, or the list map(int, ...)
NoRange == [kind |-> "none", v |-> <<>>]
IntRange(n) == [kind |-> "int", v |-> <<n>>]
ListRange(l) == [kind |-> "list", v |-> l]

\* lines 58-61 and 107-110: rng[0] <= n <= rng[1], and n == rng when that raises
InRange(rng, n) ==
    IF rng.kind = "list" /\ Len(rng.v) >= 2
    THEN rng.v[1] <= n /\ n <= rng.v[2]
    ELSE rng.kind = "int" /\ n = rng.v[1]

\* variant of the loop in which the last matching range decides
RenameLoop_lastWins(lst, n, dinc) ==
    LET hits == {i \in DOMAIN lst : InRange(lst[i].rng, n)}
    IN  IF hits = {} THEN n + dinc
        ELSE n + lst[CHOOSE i \in hits : \A j \in hits : j <= i].inc

\* lines 57-70: the for loop with its else clause
RECURSIVE RenameLoop(_, _, _)
RenameLoop(lst, n, dinc) ==
    IF lst = <<>> THEN n + dinc
    ELSE IF InRange(Head(lst).rng, n) THEN n + Head(lst).inc
    ELSE RenameLoop(Tail(lst), n, dinc)

\* lines 51-70: nnew
RenameValue(p, n, t) ==
    IF t \notin DOMAIN p THEN n ELSE RenameLoop(p[t].lst, n, p[t].dflt.inc)

\* lines 73-82: the log after remembering (t, nnew) <- n
LogAfter(log, n, t, nnew) ==
    LET d == IF t \in DOMAIN log THEN log[t] ELSE <<>>
        d2 == IF nnew \in DOMAIN d THEN d
              ELSE [k \in DOMAIN d \cup {nnew} |-> IF k = nnew THEN n ELSE d[k]]
    IN  [k \in DOMAIN log \cup {t} |-> IF k = t THEN d2 ELSE log[k]]

\* variant that warns whenever the new number is in the log already
LogWarns_anyRepeat(log, n, t, nnew) ==
    /\ t \in DOMAIN log
    /\ nnew \in DOMAIN log[t]

\* lines 78-80: whether rename warns of a non-injective mapping
LogWarns(log, n, t, nnew) ==
    /\ t \in DOMAIN log
    /\ nnew \in DOMAIN log[t]
    /\ log[t][nnew] # n

\* lines 86-90: whether rename prints the void material warning
VoidWarns(n, t, nnew) ==
    /\ t = e_mat
    /\ (n = 0 /\ nnew # 0) \/ (n # 0 /\ nnew = 0)

\* LikeFunction.rename(n, t) on the state st = [ld, nwarn, vwarn, calls]:
\* the value returned and the state left.  calls is the record of the calls
\* made: the arguments, the value returned and whether warnings.warn was
\* called
rename(p, logflag, st, n, t) ==
    LET nnew == RenameValue(p, n, t)
        w == logflag /\ LogWarns(st.ld, n, t, nnew)
    IN  [res |-> nnew,
         st |-> [ld |-> IF logflag THEN LogAfter(st.ld, n, t, nnew) ELSE st.ld,
                 nwarn |-> IF w THEN st.nwarn + 1 ELSE st.nwarn,
                 vwarn |-> IF VoidWarns(n, t, nnew) THEN st.vwarn + 1
                           ELSE st.vwarn,
                 calls |-> Append(st.calls, [t |-> t, n |-> n, res |-> nnew,
                                             warned |-> w])]]

----------------------------------------------------------------------------
(* numbering.py: read_map_file and its helpers.                            *)

\* str.split(sep) for any non-empty sep
RECURSIVE SplitStr(_, _)
SplitStr(s, sep) ==
    LET i == FindFirst(s, sep)
    IN  IF i = 0 THEN <<s>>
        ELSE <<SubSeq(s, 1, i - 1)>> \o SplitStr(SubSeq(s, i + Len(sep), Len(s)), sep)

\* map(int, parts): the first ValueError leaves
RECURSIVE MapInt(_, _)
MapInt(parts, acc) ==
    IF parts = <<>> THEN [err |-> "none", v |-> acc]
    ELSE LET r == ParseInt(Strip(Head(parts)))
         IN  IF r.err # "none" THEN [err |-> r.err, v |-> acc]
             ELSE MapInt(Tail(parts), Append(acc, r.val))

\* _read_range(s)
read_range(s) ==
    IF Strip(s) = <<>> THEN [err |-> "none", rng |-> NoRange]
    ELSE IF Contains(s, <<"-", "-">>)
         THEN LET m == MapInt(SplitStr(s, <<"-", "-">>), <<>>)
              IN  [err |-> m.err, rng |-> ListRange(m.v)]
         ELSE LET r == ParseInt(Strip(s))
              IN  [err |-> r.err, rng |-> IntRange(r.val)]

\* A rule dict: kty tells whether its keys are str (a rename rule, keyed by
\* its sign) or int (a change rule, keyed by eID ids)
EmptyRule == [kty |-> "int", d |-> <<>>]

\* _read_rename_rule(s): {sign: val}
read_rename_rule(s) ==
    LET sign == IF s[1] \in {"+", "-"} THEN s[1] ELSE ""
    IN  [kty |-> "str", d |-> [k \in {sign} |-> ParseInt(s).val]]

\* _read_change_rule(tl)
RECURSIVE ChangeRuleLoop(_, _, _)
ChangeRuleLoop(tl, res, order) ==
    IF tl = <<>> THEN res
    ELSE LET pt == eID(Head(tl), 0, order)
         IN  IF pt # 0 /\ Len(tl) >= 2
             THEN ChangeRuleLoop(SubSeq(tl, 3, Len(tl)),
                                 [k \in DOMAIN res \cup {pt} |->
                                     IF k = pt THEN tl[2] ELSE res[k]],
                                 order)
             ELSE res

read_change_rule(tl, order) == [kty |-> "int", d |-> ChangeRuleLoop(tl, <<>>, order)]

Comment == [err |-> "none", t |-> 0, rng |-> NoRange, rule |-> EmptyRule]

Raised(e) == [err |-> e, t |-> 0, rng |-> NoRange, rule |-> EmptyRule]

\* _read_map_line(ll)
read_map_line(ll, order) ==
    LET l == LStrip(Lower(ll))
        i == FindFirst(l, <<":">>)
        lp == SubSeq(l, 1, i - 1)
        rp == SubSeq(l, i + 1, Len(l))
        lpt == Split(lp)
        et == eID(Head(lpt), 0, order)
        rr == read_range(Join(<<" ">>, Tail(lpt)))
        rpl == Split(ReplaceChar(rp, "=", " "))
        rule == IF ParseInt(rpl[1]).err = "none"
                THEN read_rename_rule(rpl[1])
                ELSE read_change_rule(rpl, order)
    IN  IF i = 0 THEN Comment
        ELSE IF lpt = <<>> THEN Raised("IndexError")
        ELSE IF et = 0 THEN Comment
        ELSE IF rr.err # "none" THEN Raised(rr.err)
        ELSE IF rpl = <<>> THEN Raised("IndexError")
        ELSE IF DOMAIN rule.d = {} THEN Comment
        ELSE [err |-> "none", t |-> et, rng |-> rr.rng, rule |-> rule]

\* read_map_file, lines 232-239: the tables before the first line.  The
\* line number '-' of a default rule that no line has set is 0 here.
NewRename == [k \in eValues |-> [dflt |-> [ln |-> 0, inc |-> 0], lst |-> <<>>]]

NewChange == [k \in eValues |-> [dflt |-> [ln |-> 0, rule |-> <<>>], lst |-> <<>>]]

\* variant in which every right side is taken as the offset
RuleInc_offset(rng, k0, v0) == v0

\* read_map_file, lines 263-267: the increment of a rename rule {k0: v0}
RuleInc(rng, k0, v0) ==
    IF rng.kind = "none" \/ k0 = "+" THEN v0 ELSE v0 - rng.v[1]

\* read_map_file, lines 260-277, for the key k0 that rule.items()[0] gives:
\* the tables after the line
StoreRule(dr, dc, n, r, k0) ==
    IF r.rule.kty # "str"
    THEN \* k0 in '+-' with an int k0
         [err |-> "TypeError", drename |-> dr, dchange |-> dc]
    ELSE IF k0 \in {"+", "-", ""}
    THEN LET inc == RuleInc(r.rng, k0, r.rule.d[k0])
         IN  IF r.t \notin DOMAIN dr
             THEN [err |-> "KeyError", drename |-> dr, dchange |-> dc]
             ELSE IF r.rng.kind = "none"
             THEN [err |-> "none",
                   drename |-> [dr EXCEPT ![r.t].dflt = [ln |-> n, inc |-> inc]],
                   dchange |-> dc]
             ELSE [err |-> "none",
                   drename |-> [dr EXCEPT ![r.t].lst =
                                   Append(@, [ln |-> n, rng |-> r.rng, inc |-> inc])],
                   dchange |-> dc]
    ELSE IF r.t \notin DOMAIN dc
         THEN [err |-> "KeyError", drename |-> dr, dchange |-> dc]
         ELSE IF r.rng.kind = "none"
         THEN [err |-> "none", drename |-> dr,
               dchange |-> [dc EXCEPT ![r.t].dflt = [ln |-> n, rule |-> r.rule.d]]]
         ELSE [err |-> "none", drename |-> dr,
               dchange |-> [dc EXCEPT ![r.t].lst =
                               Append(@, [ln |-> n, rng |-> r.rng, rule |-> r.rule.d])]]

\* read_map_file, lines 244-277: one line of the map file
ReadMapLine ==
    /\ mpc = "read"
    /\ ln < Len(mfile)
    /\ ln' = ln + 1
    /\ LET r == read_map_line(LStrip(Lower(mfile[ln + 1])), eorder)
       IN  IF r.err # "none"
           THEN /\ merr' = r.err
                /\ mpc' = "raised"
                /\ UNCHANGED <<drename, dchange,
                   valVars, regVars, wrapVars>>
           ELSE IF r.t = 0
           THEN UNCHANGED <<drename, dchange, merr, mpc,
                   valVars, regVars, wrapVars>>
           ELSE \E k0 \in DOMAIN r.rule.d :
                    LET w == StoreRule(drename, dchange, ln + 1, r, k0)
                    IN  /\ drename' = w.drename
                        /\ dchange' = w.dchange
                        /\ merr' = w.err
                        /\ mpc' = IF w.err # "none" THEN "raised" ELSE "read"
    /\ UNCHANGED <<mfile, mlast, eorder, lexVars, rwVars,
                   valVars, regVars, wrapVars>>

\* read_map_file, line 278: return drename, dchange
ReturnTables ==
    /\ mpc = "read"
    /\ ln = Len(mfile)
    /\ mpc' = "done"
    /\ UNCHANGED <<mfile, ln, drename, dchange, merr, mlast, eorder, lexVars, rwVars,
                   valVars, regVars, wrapVars>>

\* LikeFunction(drename, dchange).rename(n, t), without log
MapRename(n, t) ==
    /\ mpc = "done"
    /\ mlast' = [op |-> "rename", n |-> n, t |-> t,
                 res |-> rename(drename, FALSE,
                                [ld |-> <<>>, nwarn |-> 0, vwarn |-> 0, calls |-> <<>>],
                                n, t).res]
    /\ UNCHANGED <<mfile, ln, mpc, drename, dchange, merr, eorder, lexVars, rwVars,
                   valVars, regVars, wrapVars>>

----------------------------------------------------------------------------
(* parser.py and numbering.py: the two passes over a card's values.  A     *)
(* value is the tuple <<v, t>>; None is <<>> and an int n is <<n>> for      *)
(* original_name and etype.                                                *)

\* variant of the loop that stores the kind a value was looked up under
RECURSIVE RenumberLoop_lookupKind(_, _, _, _, _)
RenumberLoop_lookupKind(p, logflag, st, vals, newvals) ==
    IF vals = <<>> THEN [values |-> newvals, st |-> st]
    ELSE LET t == Head(vals)
             t1 == IF t[2] = e_fill THEN e_u ELSE t[2]
             r == rename(p, logflag, st, t[1], t1)
         IN  RenumberLoop_lookupKind(p, logflag, r.st, Tail(vals),
                                     Append(newvals, <<r.res, t1>>))

\* variant of the loop that looks every value up under its own kind
RECURSIVE RenumberLoop_ownKind(_, _, _, _, _)
RenumberLoop_ownKind(p, logflag, st, vals, newvals) ==
    IF vals = <<>> THEN [values |-> newvals, st |-> st]
    ELSE LET t == Head(vals)
             r == rename(p, logflag, st, t[1], t[2])
         IN  RenumberLoop_ownKind(p, logflag, r.st, Tail(vals),
                                  Append(newvals, <<r.res, t[2]>>))

\* Card.apply_renumbering(f) with f = LikeFunction.rename, lines 333-340:
\* the new values and the state of the LikeFunction after the calls
RECURSIVE RenumberLoop(_, _, _, _, _)
RenumberLoop(p, logflag, st, vals, newvals) ==
    IF vals = <<>> THEN [values |-> newvals, st |-> st]
    ELSE LET t == Head(vals)
             t1 == IF t[2] = e_fill THEN e_u ELSE t[2]
             r == rename(p, logflag, st, t[1], t1)
         IN  RenumberLoop(p, logflag, r.st, Tail(vals),
                          Append(newvals, <<r.res, t[2]>>))

apply_renumbering(p, logflag, st, vals) == RenumberLoop(p, logflag, st, vals, <<>>)

\* LikeFunction.change, lines 113-120: rule.pop(t, None) for each value
RECURSIVE ChangeLoop(_, _, _)
ChangeLoop(vals, rule, newvals) ==
    IF vals = <<>> THEN [values |-> newvals, rule |-> rule]
    ELSE LET v == Head(vals)
         IN  IF v[2] \in DOMAIN rule
             THEN ChangeLoop(Tail(vals),
                             [k \in DOMAIN rule \ {v[2]} |-> rule[k]],
                             Append(newvals, <<rule[v[2]], v[2]>>))
             ELSE ChangeLoop(Tail(vals), rule, Append(newvals, v))

\* lines 105-111: the rules change walks, the default rule last with the
\* card's own name as its range
ChangeRules(tbl, name) ==
    Append(tbl.lst, [ln |-> tbl.dflt.ln, rng |-> IntRange(name), rule |-> tbl.dflt.rule])

\* LikeFunction.change(card): the card's values and the change table after it
change(c, vals, name, et) ==
    IF name = <<>> \/ et = <<>> \/ et[1] \notin DOMAIN c
    THEN [values |-> vals, cdict |-> c]
    ELSE LET tbl == c[et[1]]
             rules == ChangeRules(tbl, name[1])
             hit(i) == InRange(rules[i].rng, name[1])
             i == CHOOSE x \in DOMAIN rules : hit(x) /\ \A y \in 1..(x - 1) : ~hit(y)
             r == ChangeLoop(vals, rules[i].rule, <<>>)
         IN  [values |-> r.values,
              cdict |-> IF i <= Len(tbl.lst)
                        THEN [c EXCEPT ![et[1]].lst[i].rule = r.rule]
                        ELSE [c EXCEPT ![et[1]].dflt.rule = r.rule]]

----------------------------------------------------------------------------
(* The decks the lexer is run on.                                          *)

\* the number of lines of a deck after its first line
MaxBody == 3

L_cell == <<"1", " ", "0", " ", "-", "2", "\n">>
L_dollar == <<"2", " ", "0", " ", "3", " ", "$", "x", "\n">>
L_amp == <<"3", " ", "0", " ", "&", "\n">>
L_cont == <<" ", " ", " ", " ", " ", "-", "4", "\n">>
L_cmnt == <<"c", " ", "x", "\n">>
L_blank == <<"\n">>
L_fc == <<"f", "c", "4", " ", "x", "\n">>
L_fcamp == <<"f", "c", "4", " ", "a", " ", "&", "\n">>
L_fclong == (<<"f", "c", "4", " ">> \o [i \in 1..FcWidth |-> "x"]) \o <<"\n">>
L_continue == <<"c", "o", "n", "t", "i", "n", "u", "e", "\n">>
L_message == <<"m", "e", "s", "s", "a", "g", "e", ":", " ", "a", "\n">>
L_nolf == <<"5">>

FirstLines == {L_cell, L_continue, L_message, L_blank, L_fc}

BodyLines == {L_cell, L_dollar, L_amp, L_cont, L_cmnt, L_blank, L_fc, L_fcamp, L_fclong}

\* a file is a sequence of lines, each ended by LF but possibly the last
Decks ==
    {<<>>}
    \cup {(<<h>> \o b) \o t :
            h \in FirstLines,
            b \in UNION {[1..k -> BodyLines] : k \in 0..MaxBody},
            t \in {<<>>, <<L_nolf>>}}

\* the frames of the other programs, not running
MapIdle ==
    /\ mfile = <<>>
    /\ ln = 0
    /\ mpc = "idle"
    /\ drename = <<>>
    /\ dchange = <<>>
    /\ merr = "none"
    /\ mlast = [op |-> "none", n |-> 0, t |-> 0, res |-> 0]

RwIdle ==
    /\ pdict = <<>>
    /\ cdict = <<>>
    /\ pdict0 = <<>>
    /\ cdict0 = <<>>
    /\ lf = FALSE
    /\ ld = <<>>
    /\ nwarn = 0
    /\ vwarn = 0
    /\ calls = <<>>
    /\ pulled = {}
    /\ values = <<>>
    /\ original_name = <<>>
    /\ ctype = <<>>
    /\ etype = <<>>
    /\ dtype = <<>>
    /\ rlast = <<>>

ValIdle ==
    /\ vcard = <<>>
    /\ vpc = "idle"
    /\ verr = "none"
    /\ vwarns = 0

RegIdle == lk = <<>>

WrapIdle == wr = <<>>

LexIdle ==
    /\ file = <<>>
    /\ pos = 0
    /\ pc = "idle"
    /\ ncid = 0
    /\ cf = FALSE
    /\ card = <<>>
    /\ cmnt = <<>>
    /\ cards = <<>>
    /\ err = "none"

InitLex ==
    /\ file \in Decks
    /\ pos = 0
    /\ pc = "first"
    /\ ncid = 0
    /\ cf = FALSE
    /\ card = <<>>
    /\ cmnt = <<>>
    /\ cards = <<>>
    /\ err = "none"
    /\ eorder = [i \in DOMAIN eTypes |-> i]
    /\ MapIdle
    /\ RwIdle
    /\ ValIdle
    /\ RegIdle
    /\ WrapIdle

NextLex ==
    \/ FirstBlock
    \/ BlankLine
    \/ Continuation
    \/ CommentLine
    \/ FirstLine
    \/ EndOfFile

SpecLex == InitLex /\ [][NextLex]_vars

----------------------------------------------------------------------------
(* Claims about the lexer and the card constructor.                        *)

\* the physical lines of the cards yielded so far, in yield order
RECURSIVE YieldedLines(_)
YieldedLines(cs) ==
    IF cs = <<>> THEN <<>> ELSE Head(cs).lines \o YieldedLines(Tail(cs))

\* C1: every card that get_cards yields, before get_values or any rewrite,
\* is emitted by card(wrap=False) without an error as exactly the
\* concatenation of its physical lines.
C1_RoundTrip ==
    \A i \in DOMAIN cards :
        /\ card_nowrap(cards[i]).err = "none"
        /\ card_nowrap(cards[i]).out = Concat(cards[i].lines)

\* C2: when get_cards has run to its end without an error, the lines of
\* the yielded cards, in yield order, are exactly the lines of the file.
C2_LinesPreserved ==
    (pc = "done" /\ err = "none") => YieldedLines(cards) = file

----------------------------------------------------------------------------
(* The map files the compiler is run on.  A line is written from its       *)
(* description: the element prefix, the range, and the right side.         *)

\* the number of lines of a map file
MaxMapLines == 2

\* the numbers rename is called with run from 0 to MaxN
MaxN == 3

\* str(n) for n >= 0
RECURSIVE DecStr(_)
DecStr(n) ==
    LET digit == <<"0", "1", "2", "3", "4", "5", "6", "7", "8", "9">>[(n % 10) + 1]
    IN  IF n < 10 THEN <<digit>> ELSE Append(DecStr(n \div 10), digit)

RenameRhs == [ty : {"ren"}, sign : {"+", "-", ""}, n : {2}]

ChangeRhs == [ty : {"chg"}, sign : {""}, n : {0}]

LineDescs ==
    [pre : {<<"c">>, <<"m">>},
     rng : {NoRange, IntRange(2), ListRange(<<1, 3>>)},
     rhs : RenameRhs \cup ChangeRhs]
    \cup [pre : {<<"#">>}, rng : {NoRange}, rhs : [ty : {"cmt"}, sign : {""}, n : {0}]]

RangeText(rng) ==
    IF rng.kind = "none" THEN <<>>
    ELSE IF rng.kind = "int" THEN <<" ">> \o DecStr(rng.v[1])
    ELSE (<<" ">> \o DecStr(rng.v[1])) \o (<<"-", "-">> \o DecStr(rng.v[2]))

RhsText(rhs) ==
    IF rhs.ty = "ren"
    THEN (IF rhs.sign = "" THEN <<>> ELSE <<rhs.sign>>) \o DecStr(rhs.n)
    ELSE <<"i", "m", "p", ":", "n", "=", "0">>

\* 'c 1--3: +2\n', 'm: 2\n', 'c 2: imp:n=0\n', '# a comment\n'
LineText(d) ==
    IF d.rhs.ty = "cmt" THEN <<"#", " ", "x", "\n">>
    ELSE ((d.pre \o RangeText(d.rng)) \o <<":", " ">>) \o (RhsText(d.rhs) \o <<"\n">>)

MapLines == {LineText(d) : d \in LineDescs}

MapFiles == UNION {[1..k -> MapLines] : k \in 0..MaxMapLines}

\* the description a line was written from
DescOf(l) == CHOOSE d \in LineDescs : LineText(d) = l

InitMap ==
    /\ mfile \in MapFiles
    /\ ln = 0
    /\ mpc = "read"
    /\ drename = NewRename
    /\ dchange = NewChange
    /\ merr = "none"
    /\ mlast = [op |-> "none", n |-> 0, t |-> 0, res |-> 0]
    /\ eorder \in eOrders
    /\ LexIdle
    /\ RwIdle
    /\ ValIdle
    /\ RegIdle
    /\ WrapIdle

NextMap ==
    \/ ReadMapLine
    \/ ReturnTables
    \/ \E n \in 0..MaxN, t \in {e_cell, e_mat, e_den} : MapRename(n, t)

SpecMap == InitMap /\ [][NextMap]_vars

----------------------------------------------------------------------------
(* Claims about the map-file compiler.                                     *)

\* the map-file line whose rule rename applies to n under the table tbl of
\* a kind: the first range entry that contains n, else the default rule;
\* 0 when no line of the file set that rule
AppliedLn(tbl, n) ==
    LET hit(i) == InRange(tbl.lst[i].rng, n)
    IN  IF \E i \in DOMAIN tbl.lst : hit(i)
        THEN tbl.lst[CHOOSE i \in DOMAIN tbl.lst :
                        hit(i) /\ \A j \in 1..(i - 1) : ~hit(j)].ln
        ELSE tbl.dflt.ln

\* the integer a rename line writes, with its sign
SignedN(rhs) == IF rhs.sign = "-" THEN 0 - rhs.n ELSE rhs.n

\* the line of the map file that decided the last rename call, 0 if none
LastLn ==
    IF mlast.op = "rename" /\ mlast.t \in DOMAIN drename
    THEN AppliedLn(drename[mlast.t], mlast.n)
    ELSE 0

\* C4: a rule whose integer is written with a sign (+N or -N) is an offset:
\* with or without a range, rename returns n + N, N taken with its sign, for
\* every n the rule applies to.
C4_SignedIsOffset ==
    (LastLn > 0 /\ DescOf(mfile[LastLn]).rhs.sign \in {"+", "-"})
        => mlast.res = mlast.n + SignedN(DescOf(mfile[LastLn]).rhs)

\* C5: a rule whose integer N is written without sign is an anchor when it
\* has a range with low end lo: rename returns n + (N - lo) for every n the
\* rule applies to, so that lo maps to N; without a range it is the offset
\* n + N.
C5_UnsignedIsAnchor ==
    (LastLn > 0 /\ DescOf(mfile[LastLn]).rhs.sign = "")
        => LET d == DescOf(mfile[LastLn])
           IN  IF d.rng.kind = "none"
               THEN mlast.res = mlast.n + d.rhs.n
               ELSE /\ mlast.res = mlast.n + (d.rhs.n - d.rng.v[1])
                    /\ (mlast.n = d.rng.v[1] => mlast.res = d.rhs.n)

\* C5 happens: an unsigned rule with the range 1--3 was applied to 3, and
\* an n other than the low end moved by N - lo
C5_Witness ==
    /\ LastLn > 0
    /\ DescOf(mfile[LastLn]).rhs.sign = ""
    /\ DescOf(mfile[LastLn]).rng.kind = "list"
    /\ mlast.n = 3
    /\ mlast.res = 4

\* C10: a line with a known element prefix whose right side is no integer
\* is compiled as a change rule: read_map_file goes on without an error,
\* the line's dictionary is stored in the change table (as a range entry
\* when the line has a range, as the default rule otherwise), and the line
\* adds nothing to the rename table.
C10_ChangeRuleCompiled ==
    (ln > 0 /\ DescOf(mfile[ln]).rhs.ty = "chg")
        => LET d == DescOf(mfile[ln])
               rule == [k \in {e_impn} |-> <<"0">>]
           IN  /\ merr = "none"
               /\ \E t \in DOMAIN dchange :
                     IF d.rng.kind = "none"
                     THEN dchange[t].dflt = [ln |-> ln, rule |-> rule]
                     ELSE \E i \in DOMAIN dchange[t].lst :
                             dchange[t].lst[i] = [ln |-> ln, rng |-> d.rng, rule |-> rule]
               /\ \A t \in DOMAIN drename :
                     /\ drename[t].dflt.ln # ln
                     /\ \A i \in DOMAIN drename[t].lst : drename[t].lst[i].ln # ln

----------------------------------------------------------------------------
(* The rewrite engine at work: a LikeFunction built from a rename table    *)
(* and a change table, and the cards a driver hands to it one at a time.   *)

\* the number of cards handed to the engine in a run
MaxCards == 2

\* the number of range entries of a kind in a rename table
MaxRules == 2

\* rename tables, in the form read_map_file returns
RenameEntries ==
    {[rng |-> ListRange(<<1, 3>>), inc |-> 10],
     [rng |-> IntRange(3), inc |-> 20],
     [rng |-> IntRange(4), inc |-> -1],
     [rng |-> ListRange(<<3, 4>>), inc |-> -1]}

Numbered(es) == [i \in DOMAIN es |-> [ln |-> i, rng |-> es[i].rng, inc |-> es[i].inc]]

CellTables ==
    {[dflt |-> [ln |-> IF d = 0 THEN 0 ELSE MaxRules + 1, inc |-> d], lst |-> Numbered(es)] :
        d \in {0, 5},
        es \in UNION {[1..k -> RenameEntries] : k \in 0..MaxRules}}

MatTables ==
    {[dflt |-> [ln |-> 1, inc |-> 10], lst |-> <<>>],
     [dflt |-> [ln |-> 0, inc |-> 0],
      lst |-> <<[ln |-> 1, rng |-> IntRange(5), inc |-> -5]>>]}

UTables == {[dflt |-> [ln |-> 1, inc |-> 10], lst |-> <<>>]}

FillTables == {[dflt |-> [ln |-> 2, inc |-> 3], lst |-> <<>>]}

PTables ==
    {[NewRename EXCEPT ![e_cell] = x] : x \in CellTables}
    \cup {[NewRename EXCEPT ![e_mat] = x] : x \in MatTables}
    \cup {[NewRename EXCEPT ![e_u] = x] : x \in UTables}
    \cup {[NewRename EXCEPT ![e_fill] = x] : x \in FillTables}
    \cup {[NewRename EXCEPT ![e_u] = x, ![e_fill] = y] : x \in UTables, y \in FillTables}

\* change tables, in the form read_map_file is written to return
ImpN0 == [k \in {e_impn} |-> <<"0">>]

ImpP2 == [k \in {e_impp} |-> <<"2">>]

CTables ==
    {NewChange,
     [NewChange EXCEPT ![e_cell].lst =
         <<[ln |-> 1, rng |-> ListRange(<<3, 4>>), rule |-> ImpN0]>>],
     [NewChange EXCEPT ![e_cell].lst =
         <<[ln |-> 1, rng |-> IntRange(3), rule |-> ImpN0]>>,
                       ![e_cell].dflt = [ln |-> 2, rule |-> ImpP2]]}

\* decomposed cards, as get_values leaves them:
\*   '1 0 -1 u=4 fill=4'             (cell)
\*   '3 5 -1.0 -4 imp:n=1 imp:p=1'   (cell)
\*   '4 0 3 #3 imp:n=1'              (cell)
\*   '2 px 1.0'                      (surface)
\*   'm5 1001 1.0'                   (data, material)
\*   'c a comment'                   (comment)
DeckCards ==
    {[values |-> <<<<1, e_cell>>, <<0, e_mat>>, <<1, e_sur>>, <<4, e_u>>, <<4, e_fill>>>>,
      original_name |-> <<1>>, ctype |-> c_cell, etype |-> <<e_cell>>, dtype |-> <<>>],
     [values |-> <<<<3, e_cell>>, <<5, e_mat>>, <<<<"-", "1", ".", "0">>, e_den>>,
                   <<4, e_sur>>, <<<<"1">>, e_impn>>, <<<<"1">>, e_impp>>>>,
      original_name |-> <<3>>, ctype |-> c_cell, etype |-> <<e_cell>>, dtype |-> <<>>],
     [values |-> <<<<4, e_cell>>, <<0, e_mat>>, <<3, e_sur>>, <<3, e_cell>>,
                   <<<<"1">>, e_impn>>>>,
      original_name |-> <<4>>, ctype |-> c_cell, etype |-> <<e_cell>>, dtype |-> <<>>],
     [values |-> <<<<2, e_sur>>>>,
      original_name |-> <<2>>, ctype |-> c_surface, etype |-> <<e_sur>>, dtype |-> <<>>],
     [values |-> <<<<5, e_mat>>>>,
      original_name |-> <<>>, ctype |-> c_data, etype |-> <<e_mat>>, dtype |-> <<d_m>>],
     [values |-> <<>>,
      original_name |-> <<>>, ctype |-> c_comment, etype |-> <<>>, dtype |-> <<>>]}

NoOp == [op |-> "none", card |-> 0, before |-> <<>>, after |-> <<>>]

InitRW ==
    /\ pdict \in PTables
    /\ cdict \in CTables
    /\ pdict0 = pdict
    /\ cdict0 = cdict
    /\ lf \in BOOLEAN
    /\ ld = <<>>
    /\ nwarn = 0
    /\ vwarn = 0
    /\ calls = <<>>
    /\ pulled = {}
    /\ values = <<>>
    /\ original_name = <<>>
    /\ ctype = <<>>
    /\ etype = <<>>
    /\ dtype = <<>>
    /\ rlast = NoOp
    /\ eorder = [i \in DOMAIN eTypes |-> i]
    /\ LexIdle
    /\ MapIdle
    /\ ValIdle
    /\ RegIdle
    /\ WrapIdle

\* the driver pulls the next card of the deck (get_cards, get_values); the
\* cards of a deck differ
NextCard ==
    /\ rlast.card < MaxCards
    /\ \E k \in DeckCards \ pulled :
          /\ values' = k.values
          /\ original_name' = k.original_name
          /\ ctype' = <<k.ctype>>
          /\ etype' = k.etype
          /\ dtype' = k.dtype
          /\ pulled' = pulled \cup {k}
    /\ rlast' = [op |-> "card", card |-> rlast.card + 1, before |-> <<>>, after |-> <<>>]
    /\ UNCHANGED <<pdict, cdict, pdict0, cdict0, lf, ld, nwarn, vwarn, calls, eorder,
                   lexVars, mapVars,
                   valVars, regVars, wrapVars>>

\* the rename pass, first of the two: card.apply_renumbering(f.rename)
Renumber ==
    /\ rlast.op = "card"
    /\ LET r == apply_renumbering(pdict, lf,
                                  [ld |-> ld, nwarn |-> nwarn, vwarn |-> vwarn,
                                   calls |-> calls],
                                  values)
       IN  /\ values' = r.values
           /\ ld' = r.st.ld
           /\ calls' = r.st.calls
           /\ nwarn' = r.st.nwarn
           /\ vwarn' = r.st.vwarn
           /\ rlast' = [op |-> "rename", card |-> rlast.card, before |-> values,
                        after |-> r.values]
    /\ UNCHANGED <<pdict, cdict, pdict0, cdict0, lf, pulled, original_name, ctype, etype,
                   dtype, eorder, lexVars, mapVars,
                   valVars, regVars, wrapVars>>

\* the change pass, after the rename pass if there is one: f.change(card)
Change ==
    /\ rlast.op \in {"card", "rename"}
    /\ LET r == change(cdict, values, original_name, etype)
       IN  /\ values' = r.values
           /\ cdict' = r.cdict
           /\ rlast' = [op |-> "change", card |-> rlast.card, before |-> values,
                        after |-> r.values]
    /\ UNCHANGED <<pdict, pdict0, cdict0, lf, ld, nwarn, vwarn, calls, pulled,
                   original_name, ctype, etype, dtype, eorder, lexVars, mapVars,
                   valVars, regVars, wrapVars>>

NextRW == NextCard \/ Renumber \/ Change

SpecRW == InitRW /\ [][NextRW]_vars

----------------------------------------------------------------------------
(* Claims about rule selection in the compiled renamer.                    *)

\* the element kind a line's prefix names in a file that compiled
KindOfPre(pre) == IF pre = <<"c">> THEN e_cell ELSE e_mat

\* whether a range, as written in the file, contains n
Covers(rng, n) ==
    \/ rng.kind = "int" /\ n = rng.v[1]
    \/ rng.kind = "list" /\ rng.v[1] <= n /\ n <= rng.v[2]

\* the lines of the file that give kind t a rule with a range containing n
RangedLines(t, n) ==
    {k \in 1..Len(mfile) :
        /\ DescOf(mfile[k]).rhs.ty = "ren"
        /\ KindOfPre(DescOf(mfile[k]).pre) = t
        /\ Covers(DescOf(mfile[k]).rng, n)}

\* the lines of the file that give kind t a default rule
DefaultLines(t) ==
    {k \in 1..Len(mfile) :
        /\ DescOf(mfile[k]).rhs.ty = "ren"
        /\ KindOfPre(DescOf(mfile[k]).pre) = t
        /\ DescOf(mfile[k]).rng.kind = "none"}

\* C6: rename(v, k) applies the offset of the first rule of kind k, in the
\* order of the lines of the map file, whose range contains v, whatever
\* later lines say; the default rule of k is applied if and only if no
\* range of k contains v; a kind without a rename table is left unchanged.
C6_FirstWins ==
    mlast.op = "rename" =>
        IF mlast.t \notin DOMAIN drename
        THEN mlast.res = mlast.n
        ELSE LET R == RangedLines(mlast.t, mlast.n)
                 D == DefaultLines(mlast.t)
                 tbl == drename[mlast.t]
             IN  IF R # {}
                 THEN \E i \in DOMAIN tbl.lst :
                         /\ \A k \in R : tbl.lst[i].ln <= k
                         /\ tbl.lst[i].ln \in R
                         /\ mlast.res = mlast.n + tbl.lst[i].inc
                 ELSE /\ mlast.res = mlast.n + tbl.dflt.inc
                      /\ D # {} => tbl.dflt.ln \in D /\ \A k \in D : k <= tbl.dflt.ln
                      /\ D = {} => tbl.dflt.inc = 0

\* C6 happens: two lines of the file give ranges that contain n, with
\* different offsets, and rename has applied the offset of the first
C6_Witness ==
    /\ mlast.op = "rename"
    /\ mlast.t = e_cell
    /\ \E i, j \in DOMAIN drename[e_cell].lst :
          /\ i < j
          /\ InRange(drename[e_cell].lst[i].rng, mlast.n)
          /\ InRange(drename[e_cell].lst[j].rng, mlast.n)
          /\ drename[e_cell].lst[i].inc # drename[e_cell].lst[j].inc
          /\ mlast.res = mlast.n + drename[e_cell].lst[i].inc

----------------------------------------------------------------------------
(* Claims about the rewrite engine.                                        *)

\* the offset the rename table tbl of a kind holds for n: that of the
\* first range entry containing n, else that of the default rule
AppliedInc(tbl, n) ==
    LET hit(i) == Covers(tbl.lst[i].rng, n)
    IN  IF \E i \in DOMAIN tbl.lst : hit(i)
        THEN tbl.lst[CHOOSE i \in DOMAIN tbl.lst :
                        hit(i) /\ \A j \in 1..(i - 1) : ~hit(j)].inc
        ELSE tbl.dflt.inc

\* C3: in the rename pass a rule that would map material 0 to a non-zero
\* number, or a non-zero material number to 0, has no effect: the value
\* stays the original number.
C3_VoidPreserved ==
    rlast.op = "rename" =>
        \A i \in DOMAIN rlast.before :
            rlast.before[i][2] = e_mat =>
                LET n == rlast.before[i][1]
                    m == n + AppliedInc(pdict0[e_mat], n)
                IN  ((n = 0 /\ m # 0) \/ (n # 0 /\ m = 0))
                        => rlast.after[i] = <<n, e_mat>>

\* C7: the rename pass renames every value of kind Fill by the rules of
\* kind Universe, never by rules registered under Fill, and the value keeps
\* the kind Fill; so a fill number and a universe number that are equal
\* stay equal.
C7_FillUsesUniverse ==
    rlast.op = "rename" =>
        /\ Len(rlast.after) = Len(rlast.before)
        /\ \A i \in DOMAIN rlast.before :
              rlast.before[i][2] = e_fill =>
                  /\ rlast.after[i][2] = e_fill
                  /\ rlast.after[i][1]
                        = rlast.before[i][1] + AppliedInc(pdict0[e_u], rlast.before[i][1])
                  /\ \A j \in DOMAIN rlast.before :
                        (rlast.before[j][2] = e_u
                            /\ rlast.before[j][1] = rlast.before[i][1])
                        => rlast.after[j][1] = rlast.after[i][1]

\* C7 happens: a card with u=4 and fill=4 went through the rename pass of
\* a table with different rules for Universe (+10) and Fill (+3)
C7_Witness ==
    /\ rlast.op = "rename"
    /\ pdict0[e_u].dflt.inc = 10
    /\ pdict0[e_fill].dflt.inc = 3
    /\ \E i, j \in DOMAIN rlast.before :
          /\ rlast.before[i] = <<4, e_fill>>
          /\ rlast.before[j] = <<4, e_u>>
          /\ rlast.after[i] = <<14, e_fill>>
          /\ rlast.after[j] = <<14, e_u>>

\* the first range rule of the change table, as constructed, for the
\* card's element kind whose range contains the card's original_name
ChangeRuleFor(et, name) ==
    LET lst == cdict0[et].lst
        hit(i) == Covers(lst[i].rng, name)
    IN  lst[CHOOSE i \in DOMAIN lst : hit(i) /\ \A j \in 1..(i - 1) : ~hit(j)].rule

HasChangeRule(et, name) ==
    /\ et \in DOMAIN cdict0
    /\ \E i \in DOMAIN cdict0[et].lst : Covers(cdict0[et].lst[i].rng, name)

\* C8: in the change pass of any card of a run, when the card's element
\* kind has a change rule whose range contains the card's original_name,
\* every value whose kind is a key of the rule is replaced by the rule's
\* string and every other value is left as it was, for the second card
\* that matches the rule as for the first.
C8_ChangeApplied ==
    (/\ rlast.op = "change"
     /\ original_name # <<>>
     /\ etype # <<>>
     /\ HasChangeRule(etype[1], original_name[1]))
        => LET rule == ChangeRuleFor(etype[1], original_name[1])
           IN  /\ Len(rlast.after) = Len(rlast.before)
               /\ \A i \in DOMAIN rlast.before :
                     IF rlast.before[i][2] \in DOMAIN rule
                     THEN rlast.after[i] = <<rule[rlast.before[i][2]], rlast.before[i][2]>>
                     ELSE rlast.after[i] = rlast.before[i]

\* C9: the compiled tables are immutable after construction: no sequence
\* of rename and change calls modifies the rename table or the change table.
C9_RulesImmutable == pdict = pdict0 /\ cdict = cdict0

\* the kinds of a card's values, in order
Kinds(vals) == [i \in DOMAIN vals |-> vals[i][2]]

\* C11: the rename pass and the change pass change neither ctype, etype nor
\* dtype of the card, and values keeps its length and the kind at every
\* position; only the value component of a tuple may change.
C11_KindStable ==
    [][rlast'.op \in {"rename", "change"} =>
          /\ ctype' = ctype
          /\ etype' = etype
          /\ dtype' = dtype
          /\ Kinds(values') = Kinds(values)]_vars

\* C11 happens: cell card 3 went through both passes, the rename pass made
\* it cell 23 and the change pass changed a parameter
C11_Witness ==
    /\ rlast.op = "change"
    /\ rlast.after # rlast.before
    /\ ctype = <<c_cell>>
    /\ original_name = <<3>>
    /\ values[1][1] = 23

\* two calls of rename with distinct sources of one kind and equal results
Collision(a, b) == a.t = b.t /\ a.n # b.n /\ a.res = b.res

\* C13 as claimed: with logging, a warning has been emitted if and only if
\* two distinct source values of the same kind have produced equal
\* rewritten values, and a call that repeats a (source, result) pair seen
\* before never warns.
C13_WarnIffCollision ==
    lf =>
        /\ nwarn > 0 <=> \E i, j \in DOMAIN calls : Collision(calls[i], calls[j])
        /\ \A i \in DOMAIN calls :
              (\E j \in 1..(i - 1) :
                    /\ calls[j].t = calls[i].t
                    /\ calls[j].n = calls[i].n
                    /\ calls[j].res = calls[i].res)
                  => ~calls[i].warned

\* C13, amended: with logging, a warning has been emitted if and only if
\* two distinct source values of the same kind have produced equal
\* rewritten values; a call warns exactly when the first call that produced
\* its result for the kind had another source, so a call that repeats that
\* first pair never warns.
C13_WarnIffFirstDiffers ==
    lf =>
        /\ nwarn > 0 <=> \E i, j \in DOMAIN calls : Collision(calls[i], calls[j])
        /\ nwarn = Cardinality({i \in DOMAIN calls : calls[i].warned})
        /\ \A i \in DOMAIN calls :
              LET same == {j \in 1..(i - 1) :
                              calls[j].t = calls[i].t /\ calls[j].res = calls[i].res}
              IN  calls[i].warned <=>
                      /\ same # {}
                      /\ calls[CHOOSE j \in same : \A k \in same : j <= k].n # calls[i].n

\* C13 happens: with logging, cell 4 and cell 3 were both mapped to 3 and
\* the second call warned
C13_Witness ==
    /\ lf
    /\ nwarn = 1
    /\ \E i, j \in DOMAIN calls :
          /\ i < j
          /\ calls[i] = [t |-> e_cell, n |-> 4, res |-> 3, warned |-> FALSE]
          /\ calls[j] = [t |-> e_cell, n |-> 3, res |-> 3, warned |-> TRUE]

----------------------------------------------------------------------------
(* Claims about the lexer's failure semantics, kinds and continuation.     *)

\* C14: the lexer never raises, whatever the deck holds (an empty file, a
\* blank first line, a message block without its blank line, a last line
\* without LF, more blank lines than blocks), and at the end of the file
\* the card and the comment lines accumulated have been yielded.
C14_LexerNeverRaises ==
    /\ err = "none"
    /\ (pc = "done" /\ card # <<>>) => \E i \in DOMAIN cards : cards[i].lines = card
    /\ (pc = "done" /\ cmnt # <<>>) => \E i \in DOMAIN cards : cards[i].lines = cmnt

\* whether the deck begins with the keyword 'continue'
IsContinueDeck ==
    /\ file # <<>>
    /\ Split(Lower(file[1])) # <<>>
    /\ Split(Lower(file[1]))[1] = <<"c", "o", "n", "t", "i", "n", "u", "e">>

\* C17: every card yielded has a card kind of the closed set; once the
\* first block is read the block counter is one of Title, Cell, Surface,
\* Data and never leaves that set, however many blank lines follow; in a
\* deck that begins with 'continue' every card that is neither a comment
\* nor a blank line is Data.
C17_KindsClosed ==
    /\ \A i \in DOMAIN cards : cards[i].ctype \in cIDs
    /\ pc = "loop" => ncid \in {c_title, c_cell, c_surface, c_data}
    /\ IsContinueDeck =>
          \A i \in DOMAIN cards :
              cards[i].ctype \in {c_comment, c_blankline, c_data}

\* the lines before line p + 1 that are not comment lines
NonComment(p) == {j \in 1..p : ~is_commented(file[j])}

\* C18: a non-blank line (here: one that is no comment line, a comment
\* line's card being decided by the line after it) belongs to the current
\* card whenever the previous
\* non-comment line, a line of that card, holds '&' in its first 81
\* characters and is not an fc card, also when comment lines lie between
\* the two; an '&' on the first line of an fc card never makes the next
\* line a continuation.
C18_AmpContinues ==
    [][(pc = "loop" /\ pos' = pos + 1 /\ ~is_blankline(file[pos + 1])
            /\ NonComment(pos) # {}) =>
          LET j == CHOOSE x \in NonComment(pos) : \A y \in NonComment(pos) : y <= x
              l == file[pos + 1]
          IN  /\ (HasAmp(file[j]) /\ ~is_fc_card(file[j]) /\ ~is_commented(l)
                    /\ card # <<>> /\ j > pos - Len(card) - Len(cmnt))
                    => (cards' = cards /\ card' = (card \o cmnt) \o <<l>>)
              /\ (j = pos /\ card = <<file[j]>> /\ is_fc_card(file[j]) /\ HasAmp(file[j])
                    /\ ~FiveSpaces(l) /\ ~is_commented(l))
                    => card' = <<l>>]_vars

----------------------------------------------------------------------------
(* The kind registries at work: cID, eID and dID, each with an order its   *)
(* dictionary is walked in, and the calls made on it.                      *)

Registries == [c |-> cTypes, e |-> eTypes, d |-> dTypes]

\* the orders dict.items() may walk a dictionary of n entries in: the
\* rotations of the order of declaration and their reverses stand for the
\* interpreter builds
Orders(n) ==
    {[i \in 1..n |-> ((i + r - 1) % n) + 1] : r \in 0..(n - 1)}
    \cup {[i \in 1..n |-> ((n - i + r) % n) + 1] : r \in 0..(n - 1)}

\* strings the registries are asked for: every registered name, prefixes of
\* names, and strings that match none
AskedStrings ==
    {cTypes[i].name : i \in DOMAIN cTypes}
    \cup {eTypes[i].name : i \in DOMAIN eTypes}
    \cup {dTypes[i].name : i \in DOMAIN dTypes}
    \cup {<<"i", "m", "p">>, <<"t">>, <<"c">>, <<"x">>, <<"v", "o", "l">>}

InitReg ==
    /\ \E r \in DOMAIN Registries :
          \E o \in Orders(Len(Registries[r])) :
              lk = [reg |-> r, order |-> o, op |-> "none",
                    V |-> [int |-> TRUE, v |-> 0], dflt |-> <<>>,
                    res |-> [kind |-> "none", v |-> 0]]
    /\ eorder = [i \in DOMAIN eTypes |-> i]
    /\ LexIdle
    /\ MapIdle
    /\ RwIdle
    /\ ValIdle
    /\ WrapIdle

\* a call with a str: cID('cell'), eID(vt), eID(s, 0)
IdOf(s, dflt) ==
    /\ lk' = [lk EXCEPT !.op = "id_of",
                        !.V = [int |-> FALSE, v |-> s],
                        !.dflt = dflt,
                        !.res = TypeName(Registries[lk.reg], [int |-> FALSE, v |-> s],
                                         dflt, lk.order)]
    /\ UNCHANGED <<eorder, lexVars, mapVars, rwVars, valVars, wrapVars>>

\* a call with an int: cID(ctype), eID(t), eID(self.etype, 0)
NameOf(n, dflt) ==
    /\ lk' = [lk EXCEPT !.op = "name_of",
                        !.V = [int |-> TRUE, v |-> n],
                        !.dflt = dflt,
                        !.res = TypeName(Registries[lk.reg], [int |-> TRUE, v |-> n],
                                         dflt, lk.order)]
    /\ UNCHANGED <<eorder, lexVars, mapVars, rwVars, valVars, wrapVars>>

NextReg ==
    \/ \E s \in AskedStrings, dflt \in {<<>>, <<0>>} : IdOf(s, dflt)
    \/ \E n \in -6..8, dflt \in {<<>>, <<0>>} : NameOf(n, dflt)

SpecReg == InitReg /\ [][NextReg]_vars

\* the ids and the names a registry holds
RegIds(data) == {data[i].id : i \in DOMAIN data}

RegNames(data) == {data[i].name : i \in DOMAIN data}

\* the entries of a registry that s is a prefix of
Matches(data, s) ==
    {i \in DOMAIN data : s = SubSeq(data[i].name, 1, Min(Len(s), Len(data[i].name)))}

\* C19: each registry is a bimap with a deterministic prefix lookup: the
\* id of a registered name is the id registered with it and the name of a
\* registered id is its name; the id of a prefix of registered names is the
\* same whatever the order the table is walked in (the id of the name that
\* is the string itself when there is one, else of the first name declared
\* that it is a prefix of); a string that matches no name gives the default.
C19_RegistryBimap ==
    LET data == Registries[lk.reg]
    IN  /\ (lk.op = "name_of" /\ lk.V.v \in RegIds(data)) =>
              /\ lk.res.kind = "name"
              /\ \E i \in DOMAIN data : data[i].id = lk.V.v /\ data[i].name = lk.res.v
        /\ (lk.op = "id_of" /\ lk.V.v \in RegNames(data)) =>
              /\ lk.res.kind = "id"
              /\ \E i \in DOMAIN data : data[i].name = lk.V.v /\ data[i].id = lk.res.v
        /\ (lk.op = "id_of" /\ Matches(data, lk.V.v) # {}) =>
              /\ lk.res.kind = "id"
              /\ lk.res = TypeName(data, lk.V, lk.dflt, [i \in DOMAIN data |-> i])
        /\ (lk.op = "id_of" /\ Matches(data, lk.V.v) = {} /\ lk.dflt # <<>>) =>
              lk.res = [kind |-> "default", v |-> lk.dflt[1]]

----------------------------------------------------------------------------
(* Cards under get_values, the two passes with the tables of an empty map  *)
(* file, and Card.card.                                                    *)

\* cell cards: name, material and density, geometry, parameters, and the
\* end of the line
CellCards ==
    LET names == {<<"1">>,
                 <<"0", "7">>}
        mats == {<<"0">>,
                <<"5", " ", "-", "1", ".", "0">>}
        geoms == {<<"1", " ", "-", "2", " ", "#", "3">>}
        parms == {<<>>,
                 <<" ", "i", "m", "p", ":", "n", "=", "1">>,
                 <<" ", "i", "m", "p", ":", "n", "=", "1", " ", "i", "m", "p", ":", "p", "=", "0">>,
                 <<" ", "u", "=", "4", " ", "f", "i", "l", "l", "=", "4">>,
                 <<" ", "f", "i", "l", "l", "=", "4", " ", "l", "a", "t", "=", "1">>,
                 <<" ", "v", "o", "l", "=", "1">>}
        ends == {<<"\n">>}
        one == {<<(((n \o <<" ">>) \o m \o <<" ">>) \o g \o p) \o e>> :
                   n \in names, m \in mats, g \in geoms, p \in parms, e \in ends}
        more == {<<<<"2", " ", "l", "i", "k", "e", " ", "1", " ", "b", "u", "t", " ", "u", "=", "4", "\n">>>>,
                 <<<<"3", " ", "0", " ", "-", "2", " ", "$", " ", "x", "\n">>,
                   <<"c", " ", "x", "\n">>,
                   <<" ", " ", " ", " ", " ", "u", "=", "4", "\n">>>>}
    IN  {[lines |-> l, ctype |-> c_cell] : l \in one \cup more}

SurfaceCards ==
    LET one == {<<"2", " ", "p", "x", " ", "1", ".", "0", "\n">>,
               <<"3", " ", "1", " ", "p", "x", " ", "1", ".", "0", "\n">>,
               <<"4", " ", "-", "5", " ", "p", "x", " ", "1", "\n">>,
               <<"*", "6", " ", "p", "y", " ", "0", "\n">>,
               <<"0", "0", "7", " ", "p", "z", " ", "1", "\n">>,
               <<"+", "8", " ", "s", "o", " ", "1", " ", "$", " ", "x", "\n">>}
    IN  {[lines |-> <<l>>, ctype |-> c_surface] : l \in one}

\* the first tokens the claims name, the cards _split_data knows, and a
\* tally comment
DataCards ==
    LET one == {<<"m", "o", "d", "e", " ", "n", " ", "p", "\n">>,
               <<"m", "p", "h", "y", "s", " ", "o", "n", "\n">>,
               <<"m", "x", "1", " ", "j", "\n">>,
               <<"p", "t", "r", "a", "c", " ", "f", "i", "l", "e", "=", "a", "s", "c", "\n">>,
               <<"n", "p", "s", " ", "1", "0", "\n">>,
               <<"m", "5", " ", "1", "0", "0", "1", " ", "1", ".", "0", "\n">>,
               <<"m", "t", "5", " ", "l", "w", "t", "r", "\n">>,
               <<"m", "p", "n", "5", " ", "0", "\n">>,
               <<"t", "r", "1", " ", "0", " ", "0", " ", "1", "\n">>,
               <<"*", "t", "r", "2", " ", "0", " ", "0", " ", "1", "\n">>,
               <<"f", "4", ":", "n", " ", "1", " ", "2", "\n">>,
               <<"f", "4", ":", "n", " ", "1", " ", "5", "i", " ", "7", "\n">>,
               <<"f", "4", ":", "n", " ", "1", "[", "0", " ", "0", " ", "0", "]", " ", "2", "\n">>,
               <<"f", "1", "4", ":", "n", " ", "3", " ", "u", "=", "4", "\n">>,
               <<"f", "5", ":", "n", " ", "0", " ", "0", " ", "0", " ", "1", "\n">>,
               <<"f", "2", ":", "n", " ", "0", "7", "\n">>,
               <<"f", "m", "4", " ", "1", "\n">>,
               <<"f", "c", "4", " ", "x", "\n">>}
    IN  {[lines |-> <<l>>, ctype |-> c_data] : l \in one}

OtherCards ==
    {[lines |-> <<L_cmnt>>, ctype |-> c_comment],
     [lines |-> <<<<"c", " ", "{", "x", "}", "\n">>>>, ctype |-> c_comment],
     [lines |-> <<L_blank>>, ctype |-> c_blankline],
     [lines |-> <<L_cell>>, ctype |-> c_title],
     [lines |-> <<L_message>>, ctype |-> c_message]}

SampleCards == CellCards \cup SurfaceCards \cup DataCards \cup OtherCards

\* Card(lines, ctype, pos) for a card of the samples
InitVal ==
    /\ \E k \in SampleCards :
          /\ NewCard(k.lines, k.ctype).err = "none"
          /\ vcard = NewCard(k.lines, k.ctype).c
    /\ vpc = "new"
    /\ verr = "none"
    /\ vwarns = 0
    /\ eorder \in eOrders
    /\ LexIdle
    /\ MapIdle
    /\ RwIdle
    /\ RegIdle
    /\ WrapIdle

\* card.get_values()
GetValues ==
    /\ vpc = "new"
    /\ \E r \in {get_values(vcard, eorder)} :
          /\ vcard' = r.c
          /\ verr' = r.err
          /\ vwarns' = vwarns + r.warns
          /\ vpc' = IF r.err = "none" THEN "values" ELSE "raised"
    /\ UNCHANGED <<eorder, lexVars, mapVars, rwVars, regVars, wrapVars>>

\* card.apply_renumbering(f.rename) for f = LikeFunction(*read_map_file(m))
\* with m an empty file: read_map_file returns NewRename and NewChange
RenameNone ==
    /\ vpc = "values"
    /\ vcard' = [vcard EXCEPT !.values =
                    apply_renumbering(NewRename, FALSE,
                                      [ld |-> <<>>, nwarn |-> 0, vwarn |-> 0,
                                       calls |-> <<>>],
                                      vcard.values).values]
    /\ vpc' = "renamed"
    /\ UNCHANGED <<verr, vwarns, eorder, lexVars, mapVars, rwVars, regVars, wrapVars>>

\* f.change(card) for the same f
ChangeNone ==
    /\ vpc = "renamed"
    /\ vcard' = [vcard EXCEPT !.values =
                    change(NewChange, vcard.values, vcard.original_name,
                           vcard.etype).values]
    /\ vpc' = "changed"
    /\ UNCHANGED <<verr, vwarns, eorder, lexVars, mapVars, rwVars, regVars, wrapVars>>

NextVal == GetValues \/ RenameNone \/ ChangeNone

SpecVal == InitVal /\ [][NextVal]_vars

----------------------------------------------------------------------------
(* Claims about decomposition and emission.                                *)

\* the card's original text
Original(c) == Concat(c.lines)

\* card(wrap=False) returns the original text
EmitsOriginal(c) == card_nowrap(c) = [err |-> "none", out |-> Original(c)]

\* the first token of the card's text, in lower case
FirstToken(c) == Lower(Split(Original(c))[1])

\* C12: for every Cell, Surface or Data card, after get_values, the rename
\* pass and the change pass of the rules of an empty map file,
\* card(wrap=False) equals the card's original text.
C12_IdentityMap ==
    (vpc = "changed" /\ vcard.ctype \in {c_cell, c_surface, c_data})
        => EmitsOriginal(vcard)

\* a cell card of the 'like ... but ...' form, or one with both fill and lat
Unsupported(c) ==
    /\ c.ctype = c_cell
    /\ \/ Contains(Lower(Original(c)), <<"l", "i", "k", "e", " ">>)
       \/ /\ Contains(Lower(Original(c)), <<"f", "i", "l", "l">>)
          /\ Contains(Lower(Original(c)), <<"l", "a", "t">>)

\* C15: get_values on a cell card of the 'like ... but ...' form, or with
\* both fill and lat, raises no exception, emits a warning, does not parse
\* the fill value, and card(wrap=False) still equals the original text.
C15_UnsupportedRecovered ==
    (vpc \in {"values", "raised"} /\ Unsupported(vcard))
        => /\ verr = "none"
           /\ vwarns > 0
           /\ \A i \in DOMAIN vcard.values : vcard.values[i][2] # e_fill
           /\ EmitsOriginal(vcard)

\* a data card whose first token is none of tr..., m<digit>, mt<digit>,
\* mpn<digit>, f<digit>; a tally comment has its own input rule
Unrecognized(c) ==
    LET t == FirstToken(c)
        pre(p) == /\ StartsWithAt(t, p, 1)
                  /\ Len(t) > Len(p)
                  /\ IsDigit(t[Len(p) + 1])
    IN  /\ c.ctype = c_data
        /\ ~re_fc_card(Original(c))
        /\ ~StartsWithAt(t, <<"t", "r">>, 1)
        /\ ~StartsWithAt(t, <<"*", "t", "r">>, 1)
        /\ ~pre(<<"m">>)
        /\ ~pre(<<"m", "t">>)
        /\ ~pre(<<"m", "p", "n">>)
        /\ ~pre(<<"f">>)

\* C16: get_values on an unrecognized data card raises no exception,
\* extracts no values, sets no data card kind, and the card is emitted
\* verbatim.
C16_UnknownDataPasses ==
    (vpc \in {"values", "raised"} /\ Unrecognized(vcard))
        => /\ verr = "none"
           /\ vcard.values = <<>>
           /\ vcard.dtype \in {<<>>, <<0>>}
           /\ EmitsOriginal(vcard)

\* the number of matches of re_fmt = '{.*?}' in s from s[i] on
RECURSIVE Placeholders(_, _)
Placeholders(s, i) ==
    IF i > Len(s) THEN 0
    ELSE LET ends == {j \in (i + 1)..Len(s) :
                        /\ s[j] = "}"
                        /\ \A k \in (i + 1)..(j - 1) : s[k] # "\n"}
         IN  IF s[i] = "{" /\ ends # {}
             THEN 1 + Placeholders(s, (CHOOSE j \in ends : \A k \in ends : j <= k) + 1)
             ELSE Placeholders(s, i + 1)

\* the number of sentinel characters in s
Sentinels(s) == Len(SelectSeq(s, LAMBDA ch : ch \in {"~", "!", "|"}))

RECURSIVE HiddenParts(_)
HiddenParts(hidden) ==
    IF hidden = <<>> THEN 0 ELSE Len(Head(hidden).vl) + HiddenParts(Tail(hidden))

\* C20: right after construction and after get_values, the number of
\* placeholders in template equals len(input), and the number of sentinel
\* characters in the joined input equals the sum of the lengths of the lists
\* in hidden.
C20_TemplateArity ==
    vpc \in {"new", "values"}
        => /\ Placeholders(vcard.template, 1) = Len(vcard.input)
           /\ Sentinels(Join(<<"\n">>, vcard.input)) = HiddenParts(vcard.hidden)

\* a card with an identifier of its own: a cell, a surface, or a data card
\* of a kind _split_data recognizes
HasOwnName(c) ==
    \/ c.ctype \in {c_cell, c_surface}
    \/ c.ctype = c_data /\ c.dtype \in {<<d_m>>, <<d_mt>>, <<d_mpn>>, <<d_f>>, <<d_tr>>}

\* C21: after get_values, original_name is None if and only if the card has
\* no identifier of its own, and otherwise it is the first value extracted.
C21_OriginalName ==
    vpc = "values"
        => /\ (vcard.original_name = <<>>) <=> ~HasOwnName(vcard)
           /\ HasOwnName(vcard) => vcard.original_name = <<vcard.values[1][1]>>

----------------------------------------------------------------------------
(* parser.py: Card.card(wrap=True) on a card that went through get_values  *)
(* and the rename pass.                                                    *)

\* s*n
Rep(s, n) == Concat([k \in 1..n |-> s])

F10 == <<" ", "1", ".", "0">>

\* cards with segments on both sides of WrapWidth
WrapCards ==
    {[lines |-> <<L_cell>>, ctype |-> c_cell],
     [lines |-> <<L_cmnt>>, ctype |-> c_comment],
     [lines |-> <<L_fclong>>, ctype |-> c_data],
     [lines |-> <<<<"1", " ", "0", " ", "-", "2", " ", "$", " ", "{", "x", "}", "\n">>>>, ctype |-> c_cell],
     \* 80 columns of a surface card, with and without a comment
     [lines |-> <<(<<"1", " ", "g", "q">> \o Rep(F10, 19)) \o <<"\n">>>>,
      ctype |-> c_surface],
     [lines |-> <<(<<"2", " ", "g", "q">> \o Rep(F10, 19)) \o <<" ", "$", " ", "x", "\n">>>>,
      ctype |-> c_surface],
     \* 79 columns, 81 with a surface number of three digits
     [lines |-> <<(<<"9", " ", "s", "o">> \o Rep(F10, 18)) \o <<" ", "1", "0", "\n">>>>,
      ctype |-> c_surface],
     \* continuation lines of ten and of five spaces
     [lines |-> <<<<"3", " ", "g", "q", " ", "1", ".", "0", "\n">>,
                  (Rep(<<" ">>, 10) \o <<"1", ".", "0">> \o Rep(F10, 17)) \o <<"\n">>>>,
      ctype |-> c_surface],
     [lines |-> <<<<"4", " ", "g", "q", " ", "1", ".", "0", "\n">>,
                  (Indent \o <<"1", ".", "0">> \o Rep(F10, 19)) \o <<"\n">>>>,
      ctype |-> c_surface],
     \* 173 columns of a material card
     [lines |-> <<(<<"m", "5">> \o Rep(<<" ", "1", "0", "0", "1", " ", "1", ".", "0">>, 19)) \o <<"\n">>>>,
      ctype |-> c_data],
     \* unions and complements without a space between them
     [lines |-> <<(<<"1", "0", "0", "0", " ", "0", " ">> \o Rep(<<"-", "1", "0", "0", "0", "0", "0", "0", "0", ":">>, 8)) \o <<"1", "1", "\n">>>>,
      ctype |-> c_cell],
     [lines |-> <<(<<"1", " ", "0", " ", "-", "1", " ", "-", "2", " ">> \o Rep(<<"1", "0", "0", "0", "0", "0", "0", "0", ":">>, 9)) \o <<"1", "1", "\n">>>>,
      ctype |-> c_cell],
     [lines |-> <<(<<"1", " ", "0", " ", "-", "1", " ", "-", "2", " ">> \o Rep(<<"1", "0", "0", "0", "0", "0", "0", "0", ":">>, 7)) \o <<"1", "1", " ", "-", "3", " ", "-", "4", "\n">>>>,
      ctype |-> c_cell],
     [lines |-> <<(<<"1", "0", "0", "0", " ", "0", " ">> \o Rep(<<"#", "1", "0", "0", "0", "0", "0", "0", "0">>, 9)) \o <<"\n">>>>,
      ctype |-> c_cell]}

\* the rename tables of a map file without lines and of one with the one
\* line 's: 100'
WrapTables ==
    {NewRename, [NewRename EXCEPT ![e_sur].dflt = [ln |-> 1, inc |-> 100]]}

InitWrap ==
    /\ \E k \in WrapCards :
          /\ NewCard(k.lines, k.ctype).err = "none"
          /\ vcard = NewCard(k.lines, k.ctype).c
    /\ vpc = "new"
    /\ verr = "none"
    /\ vwarns = 0
    /\ eorder \in eOrders
    /\ LexIdle
    /\ MapIdle
    /\ RwIdle
    /\ RegIdle
    /\ WrapIdle

\* card.apply_renumbering(f.rename) for the LikeFunction f of a rename table
RenameBy ==
    /\ vpc = "values"
    /\ \E p \in WrapTables :
          vcard' = [vcard EXCEPT !.values =
                       apply_renumbering(p, FALSE,
                                         [ld |-> <<>>, nwarn |-> 0, vwarn |-> 0,
                                          calls |-> <<>>],
                                         vcard.values).values]
    /\ vpc' = "renamed"
    /\ UNCHANGED <<verr, vwarns, eorder, lexVars, mapVars, rwVars, regVars, wrapVars>>

\* card.card(wrap=True) up to the loop over the segments, lines 239-256
CardWrap ==
    /\ vpc = "renamed"
    /\ wr = <<>>
    /\ wr' = WrapFrame(vcard)
    /\ UNCHANGED <<eorder, lexVars, mapVars, rwVars, valVars, regVars>>

\* line 258, 'for i, t in zip(inpt, tparts)', and lines 260-261: the next
\* segment and the template part after it
ForNext ==
    /\ wr # <<>>
    /\ wr.pc = "for"
    /\ wr.n < Min(Len(wr.inpt), Len(wr.tparts))
    /\ wr' = [wr EXCEPT !.pc = "while", !.n = @ + 1,
                        !.i = wr.inpt[wr.n + 1], !.t = wr.tparts[wr.n + 1],
                        !.il = <<>>, !.tl = <<wr.tparts[wr.n + 1]>>]
    /\ UNCHANGED <<eorder, lexVars, mapVars, rwVars, valVars, regVars>>

\* one turn of the while loop, lines 263-285, that cuts the segment
WhileFold ==
    /\ wr # <<>>
    /\ wr.pc = "while"
    /\ Len(RStrip(wr.i)) > WrapWidth
    /\ \E i \in {Reindent(wr.i)} :
          /\ Len(RStrip(i)) > WrapWidth
          /\ \E k \in {WrapBreak(i)} :
                /\ k # -1
                /\ wr' = [wr EXCEPT !.il = Append(@, SubSeq(i, 1, k)),
                                    !.tl = Append(@, <<"\n">>),
                                    !.i = Indent \o SubSeq(i, k + 1, Len(i))]
    /\ UNCHANGED <<eorder, lexVars, mapVars, rwVars, valVars, regVars>>

\* one turn that finds no place to cut: the warning, the break out of the
\* while loop, and lines 287-288
WhileWarn ==
    /\ wr # <<>>
    /\ wr.pc = "while"
    /\ Len(RStrip(wr.i)) > WrapWidth
    /\ \E i \in {Reindent(wr.i)} :
          /\ Len(RStrip(i)) > WrapWidth
          /\ WrapBreak(i) = -1
          /\ wr' = SegmentEnd([wr EXCEPT !.i = i, !.warns = @ + 1])
    /\ UNCHANGED <<eorder, lexVars, mapVars, rwVars, valVars, regVars>>

\* one turn that only shifts the segment to the left
WhileShift ==
    /\ wr # <<>>
    /\ wr.pc = "while"
    /\ Len(RStrip(wr.i)) > WrapWidth
    /\ \E i \in {Reindent(wr.i)} :
          /\ Len(RStrip(i)) <= WrapWidth
          /\ wr' = [wr EXCEPT !.i = i]
    /\ UNCHANGED <<eorder, lexVars, mapVars, rwVars, valVars, regVars>>

\* the while loop left by its condition, and lines 287-288
WhileExit ==
    /\ wr # <<>>
    /\ wr.pc = "while"
    /\ Len(RStrip(wr.i)) <= WrapWidth
    /\ wr' = SegmentEnd(wr)
    /\ UNCHANGED <<eorder, lexVars, mapVars, rwVars, valVars, regVars>>

\* lines 289-295 after the last pair of zip
WrapReturn ==
    /\ wr # <<>>
    /\ wr.pc = "for"
    /\ wr.n = Min(Len(wr.inpt), Len(wr.tparts))
    /\ LET f == Format(Join(<<"{", "}">>, wr.newt), wr.newi)
       IN  wr' = [wr EXCEPT !.pc = "done", !.err = f.err, !.out = f.out]
    /\ UNCHANGED <<eorder, lexVars, mapVars, rwVars, valVars, regVars>>

\* the steps of a call of card(wrap=True) after its first
WrapSteps ==
    \/ ForNext
    \/ WhileFold
    \/ WhileWarn
    \/ WhileShift
    \/ WhileExit
    \/ WrapReturn

NextWrap ==
    \/ GetValues
    \/ RenameBy
    \/ CardWrap
    \/ WrapSteps

SpecWrap == InitWrap /\ [][NextWrap]_vars

\* the interpreter runs a call it has begun as long as a step of it is left
SpecWrapFair == SpecWrap /\ WF_vars(WrapSteps)

----------------------------------------------------------------------------
(* Claims about the folding of long segments.                              *)

\* the segment of the frame w after lines 265-266
Shifted(w) == Reindent(w.i)

\* the indices, counted from 0, above WrapMin and below WrapEnd at which the
\* right-stripped s holds the character dc
CutsAt(s, dc) ==
    {k \in (WrapMin + 1)..(Min(WrapEnd, Len(RStrip(s))) - 1) : s[k + 1] = dc}

\* the step cuts the segment s of frame w at index k, counted from 0: the
\* part before k is one more piece and the rest, its first character the one
\* at k, follows five spaces
CutAt(w, w2, s, k) ==
    /\ w2.il = Append(w.il, SubSeq(s, 1, k))
    /\ w2.i = Indent \o SubSeq(s, k + 1, Len(s))
    /\ w2.tl = Append(w.tl, <<"\n">>)
    /\ w2.warns = w.warns

\* one turn of the while loop as the amended rule has it: a segment of at
\* most WrapWidth columns is left as it is; a longer one is shifted to an
\* indent of five spaces when it starts with five, and if still longer it
\* is cut at the last space of index 7..74, or, when there is no space
\* there, at the last colon of index 7..74; only when there is neither is
\* the warning given and the segment left long
C22_Turn ==
    (wr # <<>> /\ wr' # wr /\ wr.pc = "while") =>
        LET s == Shifted(wr)
            sp == CutsAt(s, " ")
            co == CutsAt(s, ":")
        IN  IF Len(RStrip(wr.i)) <= WrapWidth
            THEN wr'.i = wr.i /\ wr'.il = wr.il /\ wr'.warns = wr.warns
            ELSE IF Len(RStrip(s)) <= WrapWidth
            THEN wr'.i = s /\ wr'.il = wr.il /\ wr'.warns = wr.warns
            ELSE IF sp # {}
            THEN \E k \in sp : (\A j \in sp : j <= k) /\ CutAt(wr, wr', s, k)
            ELSE IF co # {}
            THEN \E k \in co : (\A j \in co : j <= k) /\ CutAt(wr, wr', s, k)
            ELSE wr'.i = s /\ wr'.il = wr.il /\ wr'.warns = wr.warns + 1

\* the pieces of the segment the frame is at: every piece cut off has fewer
\* than WrapEnd columns, every continuation starts with five spaces, and once
\* the loop is left a segment of at most WrapWidth columns is there unchanged
\* and the last piece is longer than WrapWidth only after a warning
C22_Pieces ==
    (wr # <<>> /\ wr.n >= 1) =>
        /\ \A j \in DOMAIN wr.il : Len(wr.il[j]) < WrapEnd
        /\ \A j \in 2..Len(wr.il) : SubSeq(wr.il[j], 1, 5) = Indent
        /\ wr.il # <<>> => SubSeq(wr.i, 1, 5) = Indent
        /\ wr.pc \in {"for", "done"} =>
              /\ Len(RStrip(wr.inpt[wr.n])) <= WrapWidth =>
                    wr.il = <<>> /\ wr.i = wr.inpt[wr.n]
              /\ Len(RStrip(wr.i)) > WrapWidth =>
                    /\ wr.warns >= 1
                    /\ CutsAt(wr.i, " ") \cup CutsAt(wr.i, ":") = {}

\* the call returns
C22_Returns == (wr # <<>>) ~> (wr # <<>> /\ wr.pc = "done")

\* C22: card(wrap=True) terminates for every card; every segment the loop
\* takes that is longer than 79 columns after substitution is first shifted
\* to an indent of five spaces when it starts with five and, if still
\* longer, cut at the last space of index 7..74 counted from 0, or at the
\* last colon of these indices when no space is there, each continuation
\* starting with five spaces, so that every piece has at most 79 columns;
\* only when there is neither is a warning given and the segment left long,
\* and a segment of at most 79 columns is emitted unchanged.
C22_Wrap == [][C22_Turn]_vars /\ []C22_Pieces /\ C22_Returns

\* a card whose segment was cut at a colon, no space being in reach, has
\* been returned
C22_CutAtColon ==
    /\ wr # <<>>
    /\ wr.pc = "done"
    /\ wr.err = "none"
    /\ wr.warns = 0
    /\ \E j \in 2..Len(wr.newi) : SubSeq(wr.newi[j], 1, 6) = Append(Indent, ":")

\* C22 as stated: a segment longer than 79 columns is cut at the last space
\* or colon of columns 6..75, and only when there is none is the warning
\* given and the segment left long.
C22_AsStated ==
    [][(wr # <<>> /\ wr' # wr /\ wr.pc = "while"
            /\ Len(RStrip(wr.i)) > WrapWidth) =>
          LET r == RStrip(wr.i)
              cuts == {k \in (WrapMin - 1)..(Min(WrapEnd, Len(r)) - 1) :
                          r[k + 1] \in {" ", ":"}}
          IN  IF cuts # {}
              THEN \E k \in cuts : (\A j \in cuts : j <= k) /\ CutAt(wr, wr', wr.i, k)
              ELSE wr'.i = wr.i /\ wr'.il = wr.il /\ wr'.warns = wr.warns + 1]_vars

====
